---------------------------- MODULE Spec2Model ----------------------------
(***************************************************************************)
(* Model of transport_opt: the Graph data model and the graph algorithms   *)
(* of src/src/transport_opt/graph/algorithms.py (dijkstra, shortest_path,  *)
(* astar, UnionFind / kruskal_mst, edmonds_karp), the B+ tree of           *)
(* src/src/transport_opt/db/bplustree.py and the simulator of              *)
(* src/src/transport_opt/sim/simulator.py.                                 *)
(*                                                                         *)
(* Node identifiers are modelled as the integers 1, 2, ... ; their integer *)
(* order stands for Python's string order, which heapq uses to break ties  *)
(* between (priority, node) tuples.  None is modelled as 0 (no node is 0). *)
(* Edge weights are floats in the code; the model uses non-negative        *)
(* integers, for which float(w) is exact.                                  *)
(***************************************************************************)
EXTENDS Integers, Sequences, FiniteSets, TLC

VARIABLES g, dj, ast, ek, kr, bt, sim, gtfs

vars == <<g, dj, ast, ek, kr, bt, sim, gtfs>>

-----------------------------------------------------------------------------
(* Bounds of the model *)

\* largest edge weight drawn for an input graph
MaxWeight == 1
\* largest number of add_edge calls that build an input graph
MaxEdges == 4
\* largest heuristic estimate drawn for astar
MaxH == 1

\* largest capacity drawn for an entry of an input capacity mapping
MaxCap == 2

\* B+ tree: keys are 1..MaxKey
MaxKey == 10
\* B+ tree: branching orders up to MaxOrder are constructed
MaxOrder == 3
\* B+ tree: insert is called while the leaves hold fewer entries than this
MaxEntries == 11
\* B+ tree: at most this many keys hold a value other than the first one
MaxOverwritten == 1

\* simulator: the longest window drawn lasts this many minutes
MaxMinutes == 3
\* simulator: the largest number of passengers one demand tuple generates
MaxPassengers == 3

\* math.inf: larger than every finite path cost of the model
Inf == 1000000

\* None
None == 0

\* the identifiers registered in the input graphs
NodeIds == {1, 2, 3, 4}
\* an identifier that is never added to a graph
AbsentId == Cardinality(NodeIds) + 1
AllIds == NodeIds \cup {AbsentId}

\* the (u, v) arguments of the add_edge calls that build the input graphs,
\* in call order; each call is made with a weight of 0..MaxWeight or skipped
CandPairs ==
    << <<1, 2>>, <<1, 3>>, <<2, 2>>, <<2, 3>>, <<3, 2>>, <<2, 4>>, <<3, 4>> >>

NoEdge == MaxWeight + 1

-----------------------------------------------------------------------------
(* Graph (model.py) *)

\* Graph.__init__.  edge_meta maps an edge key to [kind |-> "list", items]
\* (a list of metadata dictionaries, as add_edge fills it) or to
\* [kind |-> "dict", headways] (a metadata record, as build_graph_from_gtfs
\* fills it); edge_meta_factory is "list" for the defaultdict(list) of the
\* constructor and "none" for a plain dictionary.
GraphInit(directed) ==
    [directed  |-> directed,
     nodes     |-> {},
     adj       |-> [n \in AllIds |-> <<>>],
     edges     |-> <<>>,
     edge_meta |-> <<>>,
     edge_meta_factory |-> "list"]

\* Graph.add_node
add_node(gr, node) ==
    [gr EXCEPT !.nodes = @ \cup {node}]

\* an optional metadata dictionary: None is <<>>, a dictionary d is <<d>>
NoMeta == <<>>

\* `if meta:` is false for None and for the empty dictionary
MetaGiven(meta) == meta # <<>> /\ DOMAIN meta[1] # {}

\* self.edge_meta[key].append(meta) raises KeyError on a plain dictionary
\* without the key and AttributeError on an entry that is not a list
MetaAppendRaises(gr, key) ==
    IF key \in DOMAIN gr.edge_meta
    THEN gr.edge_meta[key].kind # "list"
    ELSE gr.edge_meta_factory # "list"

\* self.edge_meta[key].append(meta) where it does not raise
MetaAppend(gr, key, meta) ==
    LET old == IF key \in DOMAIN gr.edge_meta
               THEN gr.edge_meta[key].items ELSE <<>>
    IN  [gr EXCEPT !.edge_meta =
            [k \in DOMAIN gr.edge_meta \cup {key} |->
                IF k = key THEN [kind |-> "list", items |-> Append(old, meta[1])]
                ELSE gr.edge_meta[k]]]

\* add_edge, lines 34-39: the direction u -> v
AddDirection(gr, u, v, w, meta) ==
    LET g1 == [gr EXCEPT !.nodes = @ \cup {u, v},
                         !.adj[u] = Append(@, <<v, w>>),
                         !.edges = Append(@, <<u, v, w>>)]
    IN  IF MetaGiven(meta) /\ ~MetaAppendRaises(g1, <<u, v>>)
        THEN MetaAppend(g1, <<u, v>>, meta)
        ELSE g1

\* add_edge, lines 42-45: the direction v -> u of an undirected graph
AddOpposite(gr, u, v, w, meta) ==
    LET g1 == [gr EXCEPT !.adj[v] = Append(@, <<u, w>>),
                         !.edges = Append(@, <<v, u, w>>)]
    IN  IF MetaGiven(meta) /\ ~MetaAppendRaises(g1, <<v, u>>)
        THEN MetaAppend(g1, <<v, u>>, meta)
        ELSE g1

\* Graph.add_edge raises at line 39 or at line 45
add_edge_raises(gr, u, v, meta) ==
    /\ MetaGiven(meta)
    /\ \/ MetaAppendRaises(gr, <<u, v>>)
       \/ ~gr.directed /\ MetaAppendRaises(MetaAppend(gr, <<u, v>>, meta), <<v, u>>)

\* an add_edge that never appends the opposite direction
add_edge_one_way(gr, u, v, w, meta) ==
    AddDirection(gr, u, v, w, meta)

\* Graph.add_edge: the graph the call leaves, also when it raises (at line
\* 39 the direction v -> u has not been appended)
add_edge(gr, u, v, w, meta) ==
    LET g1 == AddDirection(gr, u, v, w, meta)
    IN  IF gr.directed \/ (MetaGiven(meta) /\ MetaAppendRaises(gr, <<u, v>>))
        THEN g1
        ELSE AddOpposite(g1, u, v, w, meta)

\* Graph.neighbors: adj.get(u, [])
neighbors(gr, u) ==
    IF u \in DOMAIN gr.adj THEN gr.adj[u] ELSE <<>>

RECURSIVE AddAllNodes(_, _)
AddAllNodes(gr, S) ==
    IF S = {} THEN gr
    ELSE LET n == CHOOSE x \in S : \A y \in S : x <= y
         IN  AddAllNodes(add_node(gr, n), S \ {n})

\* the add_edge calls of CandPairs[i..] with the weights wt, skipping NoEdge
RECURSIVE AddEdgesFrom(_, _, _)
AddEdgesFrom(gr, wt, i) ==
    IF i > Len(CandPairs) THEN gr
    ELSE IF wt[i] = NoEdge THEN AddEdgesFrom(gr, wt, i + 1)
    ELSE AddEdgesFrom(add_edge(gr, CandPairs[i][1], CandPairs[i][2], wt[i], NoMeta),
                      wt, i + 1)

\* the graph built by add_node on every identifier of NodeIds and then by
\* the add_edge calls of wt
BuildGraph(directed, wt) ==
    AddEdgesFrom(AddAllNodes(GraphInit(directed), NodeIds), wt, 1)

\* the weight choices with at most MaxEdges add_edge calls
WeightChoices ==
    {wt \in [1..Len(CandPairs) -> 0..NoEdge] :
        Cardinality({i \in 1..Len(CandPairs) : wt[i] # NoEdge}) <= MaxEdges}

InputGraphs ==
    {BuildGraph(d, wt) : d \in BOOLEAN, wt \in WeightChoices}

-----------------------------------------------------------------------------
(* Priority queue of (priority, node) tuples: heapq on a list.  No tuple is *)
(* pushed twice (a push follows a strict decrease of the node's score), so  *)
(* the heap is a set and heappop removes its least tuple.                   *)

TupleLess(a, b) == a[1] < b[1] \/ (a[1] = b[1] /\ a[2] < b[2])

\* a pop that takes the greatest tuple of the queue
HeapMax(pq) == CHOOSE a \in pq : \A b \in pq : a = b \/ TupleLess(b, a)

HeapMin(pq) == CHOOSE a \in pq : \A b \in pq : a = b \/ TupleLess(a, b)

-----------------------------------------------------------------------------
(* dijkstra / reconstruct_path / shortest_path *)

DjIdle == [pc |-> "idle"]

\* dijkstra, lines 27-34: the KeyError of an unknown source, or the
\* initial dist / prev / pq / visited
DijkstraStart(gr, source) ==
    IF source \notin gr.nodes
    THEN [pc |-> "raised", source |-> source, dist |-> <<>>, prev |-> <<>>,
          pq |-> {}, visited |-> {}]
    ELSE [pc |-> "loop", source |-> source,
          dist |-> [n \in gr.nodes |-> IF n = source THEN 0 ELSE Inf],
          prev |-> [n \in gr.nodes |-> None],
          pq |-> {<<0, source>>}, visited |-> {}]

\* a relaxation that fires only on the first discovery of a node
DjLessFirstOnly(alt, dv) == dv = Inf /\ alt < dv

\* the test of line 43: alt < dist[v]
DjLess(alt, dv) == alt < dv

\* dijkstra, lines 41-46: the for loop over graph.neighbors(u) from index i
RECURSIVE DijkstraRelax(_, _, _, _, _)
DijkstraRelax(st, nbrs, i, d, u) ==
    IF i > Len(nbrs) THEN st
    ELSE LET v   == nbrs[i][1]
             alt == d + nbrs[i][2]
         IN  IF DjLess(alt, st.dist[v])
             THEN DijkstraRelax([st EXCEPT !.dist[v] = alt,
                                           !.prev[v] = u,
                                           !.pq = @ \cup {<<alt, v>>}],
                                nbrs, i + 1, d, u)
             ELSE DijkstraRelax(st, nbrs, i + 1, d, u)

\* dijkstra, lines 36-46: one iteration of the while loop
DijkstraStep(gr, st) ==
    LET top == HeapMin(st.pq)
        d   == top[1]
        u   == top[2]
        st1 == [st EXCEPT !.pq = @ \ {top}]
    IN  IF u \in st.visited
        THEN st1
        ELSE DijkstraRelax([st1 EXCEPT !.visited = @ \cup {u}],
                           neighbors(gr, u), 1, d, u)

\* dijkstra: the while loop run to its end
RECURSIVE DijkstraRun(_, _)
DijkstraRun(gr, st) ==
    IF st.pc # "loop" THEN st
    ELSE IF st.pq = {} THEN [st EXCEPT !.pc = "done"]
    ELSE DijkstraRun(gr, DijkstraStep(gr, st))

dijkstra(gr, source) == DijkstraRun(gr, DijkstraStart(gr, source))

\* no path (None)
NoPath == <<>>

\* prev.get(u)
PrevGet(prev, u) == IF u \in DOMAIN prev THEN prev[u] ELSE None

\* reconstruct_path, lines 65-69: the backward walk; path is built in
\* append order (target first)
RECURSIVE WalkBack(_, _, _, _)
WalkBack(prev, source, u, path) ==
    IF u = None THEN path
    ELSE IF u = source THEN Append(path, u)
    ELSE WalkBack(prev, source, PrevGet(prev, u), Append(path, u))

Reverse(s) == [i \in 1..Len(s) |-> s[Len(s) + 1 - i]]

\* reconstruct_path
reconstruct_path(prev, source, target) ==
    IF source = target THEN <<source>>
    ELSE IF target \notin DOMAIN prev THEN NoPath
    ELSE IF PrevGet(prev, target) = None THEN NoPath
    ELSE LET path == WalkBack(prev, source, target, <<>>)
         IN  IF path[Len(path)] # source THEN NoPath ELSE Reverse(path)

\* shortest_path applied to a finished dijkstra run
ShortestPathOf(st, source, target) ==
    IF st.pc = "raised"
    THEN [raised |-> TRUE, path |-> NoPath, cost |-> Inf]
    ELSE LET dt == IF target \in DOMAIN st.dist THEN st.dist[target] ELSE Inf
         IN  IF dt = Inf
             THEN [raised |-> FALSE, path |-> NoPath, cost |-> Inf]
             ELSE [raised |-> FALSE,
                   path |-> reconstruct_path(st.prev, source, target),
                   cost |-> st.dist[target]]

\* shortest_path
shortest_path(gr, source, target) ==
    ShortestPathOf(dijkstra(gr, source), source, target)

-----------------------------------------------------------------------------
(* astar *)

AstIdle == [pc |-> "idle"]

\* the heuristics drawn for astar, as functions of the node (the target of a
\* query is fixed): the zero heuristic (heuristic=None) and the heuristics
\* that estimate c > 0 at one node and 0 at every other node
Heuristics ==
    {[n \in AllIds |-> 0]} \cup
    {[n \in AllIds |-> IF n = k THEN c ELSE 0] : k \in NodeIds, c \in 1..MaxH}

\* astar, lines 128-141: the KeyError of an unknown source or target, or the
\* initial open_set / g_score / f_score / came_from / closed
AstarStart(gr, source, target, h) ==
    IF source \notin gr.nodes \/ target \notin gr.nodes
    THEN [pc |-> "raised", source |-> source, target |-> target, h |-> h,
          open |-> {}, g_score |-> <<>>, f_score |-> <<>>, came_from |-> <<>>,
          closed |-> {}, path |-> NoPath, cost |-> Inf]
    ELSE [pc |-> "loop", source |-> source, target |-> target, h |-> h,
          open |-> {<<h[source], source>>},
          g_score |-> [n \in gr.nodes |-> IF n = source THEN 0 ELSE Inf],
          f_score |-> [n \in gr.nodes |-> IF n = source THEN h[source] ELSE Inf],
          came_from |-> [n \in gr.nodes |-> None],
          closed |-> {}, path |-> NoPath, cost |-> Inf]

\* a lookup that also lets an equal tentative score replace the recorded one
GScoreGetLoose(gs, n) == IF n \in DOMAIN gs THEN gs[n] + 1 ELSE Inf

\* g_score.get(neighbor, math.inf)
GScoreGet(gs, n) == IF n \in DOMAIN gs THEN gs[n] ELSE Inf

\* astar, lines 151-157: the for loop over graph.neighbors(current) from index i
RECURSIVE AstarRelax(_, _, _, _)
AstarRelax(st, nbrs, i, current) ==
    IF i > Len(nbrs) THEN st
    ELSE LET neighbor    == nbrs[i][1]
             tentative_g == st.g_score[current] + nbrs[i][2]
         IN  IF tentative_g < GScoreGet(st.g_score, neighbor)
             THEN AstarRelax(
                    [st EXCEPT !.came_from[neighbor] = current,
                               !.g_score[neighbor] = tentative_g,
                               !.f_score[neighbor] = tentative_g + st.h[neighbor],
                               !.open = @ \cup {<<tentative_g + st.h[neighbor], neighbor>>}],
                    nbrs, i + 1, current)
             ELSE AstarRelax(st, nbrs, i + 1, current)

\* the test of line 148: a node already expanded is skipped
AstarSkips(current, closed) == current \in closed

\* astar, lines 143-157: one iteration of the while loop
AstarStep(gr, st) ==
    LET top     == HeapMin(st.open)
        current == top[2]
        st1     == [st EXCEPT !.open = @ \ {top}]
    IN  IF current = st.target
        THEN [st1 EXCEPT !.pc = "done",
                         !.path = reconstruct_path(st.came_from, st.source, st.target),
                         !.cost = st.g_score[st.target]]
        ELSE IF AstarSkips(current, st.closed)
        THEN st1
        ELSE AstarRelax([st1 EXCEPT !.closed = @ \cup {current}],
                        neighbors(gr, current), 1, current)

\* an exhausted search reported as an error
AstarExhaustedRaises(st) ==
    [st EXCEPT !.pc = "raised"]

\* astar, line 159: the open set ran empty
AstarExhausted(st) ==
    [st EXCEPT !.pc = "done", !.path = NoPath, !.cost = Inf]

\* astar: the while loop run to its end
RECURSIVE AstarRun(_, _)
AstarRun(gr, st) ==
    IF st.pc # "loop" THEN st
    ELSE IF st.open = {} THEN AstarExhausted(st)
    ELSE AstarRun(gr, AstarStep(gr, st))

astar(gr, source, target, h) == AstarRun(gr, AstarStart(gr, source, target, h))

-----------------------------------------------------------------------------
(* Reference definitions used to state the claims *)

\* least element of a non-empty set of numbers
SetMin(S) == CHOOSE x \in S : \A y \in S : x <= y

\* the directed edges <<u, v, w>> that neighbors() exposes
AdjEdges(gr) ==
    UNION {{<<u, gr.adj[u][i][1], gr.adj[u][i][2]>> : i \in 1..Len(gr.adj[u])} :
            u \in gr.nodes}

ReverseEdges(E) == {<<e[2], e[1], e[3]>> : e \in E}

\* k rounds of Bellman-Ford relaxation over the edge set E; a cost of Inf
\* or more stands for no path
RECURSIVE BellmanFord(_, _, _)
BellmanFord(E, D, k) ==
    IF k = 0 THEN D
    ELSE BellmanFord(E,
            [n \in DOMAIN D |->
                SetMin({D[n]} \cup {D[e[1]] + e[3] : e \in {x \in E : x[2] = n}})],
            k - 1)

\* least total weight of a path from source to each node (Inf: no path)
MinCostFrom(gr, source) ==
    BellmanFord(AdjEdges(gr),
                [n \in gr.nodes |-> IF n = source THEN 0 ELSE Inf],
                Cardinality(gr.nodes))

\* least total weight of a path from each node to target (Inf: no path)
MinCostTo(gr, target) ==
    BellmanFord(ReverseEdges(AdjEdges(gr)),
                [n \in gr.nodes |-> IF n = target THEN 0 ELSE Inf],
                Cardinality(gr.nodes))

\* h never overestimates the least cost to the target
Admissible(gr, target, h) ==
    LET D == MinCostTo(gr, target)
    IN  \A n \in gr.nodes : h[n] <= D[n]

\* consecutive nodes of path are joined by an edge of the graph
IsWalk(gr, path) ==
    \A i \in 1..(Len(path) - 1) :
        \E e \in AdjEdges(gr) : e[1] = path[i] /\ e[2] = path[i + 1]

-----------------------------------------------------------------------------------------------------------------------------------------------------
(* edmonds_karp *)

EkIdle == [pc |-> "idle"]

\* the node identifiers of the input capacity mappings
FlowNodes == {1, 2, 3, 4, 5, 6}

\* the (u, v) keys of the input capacity mappings, in insertion order; each
\* entry is present with a capacity of 0..MaxCap or absent
FlowCand ==
    << <<1, 2>>, <<1, 4>>, <<2, 3>>, <<2, 5>>, <<3, 6>>, <<3, 2>>, <<4, 3>>, <<5, 6>> >>

NoCap == MaxCap + 1

SeqToSet(q) == {q[i] : i \in 1..Len(q)}

\* the capacity mapping with the entries FlowCand[i..] of cp inserted in
\* order: capKeys[u] are the keys of capacity[u] in insertion order,
\* cap[u][v] is the entry (0 when absent)
RECURSIVE CapacityFrom(_, _, _)
CapacityFrom(cp, i, c) ==
    IF i > Len(FlowCand) THEN c
    ELSE IF cp[i] = NoCap THEN CapacityFrom(cp, i + 1, c)
    ELSE LET u == FlowCand[i][1]
             v == FlowCand[i][2]
         IN  CapacityFrom(cp, i + 1,
                [c EXCEPT !.capKeys[u] = Append(@, v), !.cap[u][v] = cp[i]])

\* edmonds_karp, lines 217 and 253: the call on a capacity mapping, before
\* the first iteration; flowKeys[u] are the keys of flow[u] in insertion
\* order (flow is a defaultdict: reading flow[u][v] inserts the key v)
EkStart(cp, source, sink) ==
    LET c == CapacityFrom(cp, 1,
                [capKeys |-> [u \in FlowNodes |-> <<>>],
                 cap     |-> [u \in FlowNodes |-> [v \in FlowNodes |-> 0]]])
    IN  [pc       |-> "bfs",
         capKeys  |-> c.capKeys,
         cap      |-> c.cap,
         source   |-> source,
         sink     |-> sink,
         flowKeys |-> [u \in FlowNodes |-> <<>>],
         flow     |-> [u \in FlowNodes |-> [v \in FlowNodes |-> 0]],
         max_flow |-> 0,
         path     |-> <<>>]

\* v in capacity.get(u, {})
CapHas(st, u, v) == v \in SeqToSet(st.capKeys[u])

\* reading flow[u][v] on the defaultdict: inserts the key v if it is new
Touch(keys, u, v) ==
    IF v \in SeqToSet(keys[u]) THEN keys ELSE [keys EXCEPT ![u] = Append(@, v)]

\* bfs, lines 230-236 and 243-249: the path of (parent, node) pairs from the
\* source to cur, built backwards
RECURSIVE PathTo(_, _, _)
PathTo(parent, source, cur) ==
    IF cur = source THEN <<>>
    ELSE Append(PathTo(parent, source, parent[cur]), <<parent[cur], cur>>)

\* bfs, lines 225-237: the forward edges of u from index i.
\* b = [parent, q, keys, found]
RECURSIVE ForwardScan(_, _, _, _)
ForwardScan(st, b, u, i) ==
    IF i > Len(st.capKeys[u]) THEN b
    ELSE LET v        == st.capKeys[u][i]
             residual == st.cap[u][v] - st.flow[u][v]
             b1       == [b EXCEPT !.keys = Touch(@, u, v)]
         IN  IF v \notin DOMAIN b.parent /\ residual > 0
             THEN IF v = st.sink
                  THEN [b1 EXCEPT !.parent = @ @@ (v :> u), !.found = TRUE]
                  ELSE ForwardScan(st,
                          [b1 EXCEPT !.parent = @ @@ (v :> u), !.q = Append(@, v)],
                          u, i + 1)
             ELSE ForwardScan(st, b1, u, i + 1)

\* the reverse-edge test of line 240 on a node v not yet in parent
ReverseUsable(st, u, v) == st.flow[v][u] > 0

\* bfs, lines 239-250: the keys ks of flow[u] (a snapshot) from index i
RECURSIVE ReverseScan(_, _, _, _, _)
ReverseScan(st, b, u, ks, i) ==
    IF i > Len(ks) THEN b
    ELSE LET v == ks[i]
         IN  IF v \in DOMAIN b.parent
             THEN ReverseScan(st, b, u, ks, i + 1)
             ELSE LET b1 == [b EXCEPT !.keys = Touch(@, v, u)]
                  IN  IF ReverseUsable(st, u, v)
                      THEN IF v = st.sink
                           THEN [b1 EXCEPT !.parent = @ @@ (v :> u), !.found = TRUE]
                           ELSE ReverseScan(st,
                                   [b1 EXCEPT !.parent = @ @@ (v :> u),
                                              !.q = Append(@, v)],
                                   u, ks, i + 1)
                      ELSE ReverseScan(st, b1, u, ks, i + 1)

\* bfs, lines 222-251: the while loop
RECURSIVE BfsLoop(_, _)
BfsLoop(st, b) ==
    IF b.found \/ b.q = <<>> THEN b
    ELSE LET u  == Head(b.q)
             b0 == [b EXCEPT !.q = Tail(@)]
             b1 == ForwardScan(st, b0, u, 1)
         IN  IF b1.found THEN b1
             ELSE BfsLoop(st, ReverseScan(st, b1, u, b1.keys[u], 1))

\* bfs: [found, path, keys]; found = FALSE stands for (None, None)
bfs(st) ==
    LET b == BfsLoop(st, [parent |-> (st.source :> None),
                          q      |-> <<st.source>>,
                          keys   |-> st.flowKeys,
                          found  |-> FALSE])
    IN  [found |-> b.found,
         path  |-> IF b.found THEN PathTo(b.parent, st.source, st.sink) ELSE <<>>,
         keys  |-> b.keys]

\* a residual that forgets the flow already on a forward edge
PathResidualOfCapacity(st, e) ==
    IF CapHas(st, e[1], e[2])
    THEN st.cap[e[1]][e[2]]
    ELSE st.flow[e[2]][e[1]]

\* edmonds_karp, lines 260-263: the residual of a path edge
PathResidual(st, e) ==
    IF CapHas(st, e[1], e[2])
    THEN st.cap[e[1]][e[2]] - st.flow[e[1]][e[2]]
    ELSE st.flow[e[2]][e[1]]

\* a bottleneck that takes the largest residual of the path
BottleneckMax(st, path) ==
    CHOOSE r \in {PathResidual(st, path[i]) : i \in 1..Len(path)} :
        \A j \in 1..Len(path) : PathResidual(st, path[j]) <= r

\* edmonds_karp, lines 258-265: the least residual of the path
Bottleneck(st, path) ==
    CHOOSE r \in {PathResidual(st, path[i]) : i \in 1..Len(path)} :
        \A j \in 1..Len(path) : r <= PathResidual(st, path[j])

\* an update that leaves out the last edge of the path
RECURSIVE ApplyPathButLast(_, _, _, _)
ApplyPathButLast(st, path, i, bottleneck) ==
    IF i >= Len(path) THEN st
    ELSE LET u == path[i][1]
             v == path[i][2]
         IN  IF v \in {st.capKeys[u][k] : k \in 1..Len(st.capKeys[u])}
             THEN ApplyPathButLast([st EXCEPT !.flow[u][v] = @ + bottleneck],
                                   path, i + 1, bottleneck)
             ELSE ApplyPathButLast([st EXCEPT !.flow[v][u] = @ - bottleneck],
                                   path, i + 1, bottleneck)

\* edmonds_karp, lines 266-270: the flow update on path[i..]
RECURSIVE ApplyPath(_, _, _, _)
ApplyPath(st, path, i, bottleneck) ==
    IF i > Len(path) THEN st
    ELSE LET u == path[i][1]
             v == path[i][2]
         IN  IF CapHas(st, u, v)
             THEN ApplyPath([st EXCEPT !.flow[u][v] = @ + bottleneck,
                                       !.flowKeys = Touch(@, u, v)],
                            path, i + 1, bottleneck)
             ELSE ApplyPath([st EXCEPT !.flow[v][u] = @ - bottleneck,
                                       !.flowKeys = Touch(@, v, u)],
                            path, i + 1, bottleneck)

\* edmonds_karp, lines 255-257: bfs(), then the loop exit when no path was found
EkSearch(st) ==
    LET r == bfs(st)
    IN  IF r.found /\ r.path # <<>>
        THEN [st EXCEPT !.pc = "augment", !.path = r.path, !.flowKeys = r.keys]
        ELSE [st EXCEPT !.pc = "done", !.path = <<>>, !.flowKeys = r.keys]

\* edmonds_karp, lines 258-271: bottleneck, flow update, max_flow
EkPush(st) ==
    LET bottleneck == Bottleneck(st, st.path)
        st1        == ApplyPath(st, st.path, 1, bottleneck)
    IN  [st1 EXCEPT !.pc = "bfs", !.path = <<>>, !.max_flow = @ + bottleneck]

-----------------------------------------------------------------------------------------------------------------------------------------------------
(* UnionFind / kruskal_mst *)

KrIdle == [pc |-> "idle"]

\* tuple(sorted((e.u, e.v)))
CanonKey(e) == IF e[1] <= e[2] THEN <<e[1], e[2]>> ELSE <<e[2], e[1]>>

\* kruskal_mst, lines 193-196: the values of unique_edges in insertion
\* order after the edges es[i..] (an overwritten key keeps its position)
RECURSIVE UniqueEdges(_, _, _)
UniqueEdges(es, i, acc) ==
    IF i > Len(es) THEN acc
    ELSE LET key == CanonKey(es[i])
             w   == es[i][3]
             pos == {k \in 1..Len(acc) : <<acc[k][1], acc[k][2]>> = key}
         IN  IF pos = {}
             THEN UniqueEdges(es, i + 1, Append(acc, <<key[1], key[2], w>>))
             ELSE LET k == CHOOSE x \in pos : TRUE
                  IN  IF w < acc[k][3]
                      THEN UniqueEdges(es, i + 1,
                                       [acc EXCEPT ![k] = <<key[1], key[2], w>>])
                      ELSE UniqueEdges(es, i + 1, acc)

\* an insertion that ignores the weights
InsertAtEnd(sorted, e) == Append(sorted, e)

\* insertion of e into a list sorted by weight, after the entries of equal
\* weight
RECURSIVE InsertByWeight(_, _)
InsertByWeight(sorted, e) ==
    IF sorted = <<>> THEN <<e>>
    ELSE IF e[3] < Head(sorted)[3] THEN <<e>> \o sorted
    ELSE <<Head(sorted)>> \o InsertByWeight(Tail(sorted), e)

\* kruskal_mst, line 198: edges.sort(key=lambda e: e.w), a stable sort
RECURSIVE SortByWeight(_, _, _)
SortByWeight(es, i, acc) ==
    IF i > Len(es) THEN acc
    ELSE SortByWeight(es, i + 1, InsertByWeight(acc, es[i]))

\* UnionFind.find with path compression: [root, parent]
RECURSIVE find(_, _)
find(parent, x) ==
    IF parent[x] = x THEN [root |-> x, parent |-> parent]
    ELSE LET r == find(parent, parent[x])
         IN  [root |-> r.root, parent |-> [r.parent EXCEPT ![x] = r.root]]

\* a union without the test for equal roots
unionNoCheck(uf, x, y) ==
    LET fx == find(uf.parent, x)
        fy == find(fx.parent, y)
    IN  [ok |-> TRUE, parent |-> [fy.parent EXCEPT ![fy.root] = fx.root],
         rank |-> uf.rank]

\* UnionFind.union: [ok, parent, rank]
union(uf, x, y) ==
    LET fx == find(uf.parent, x)
        fy == find(fx.parent, y)
        rx == fx.root
        ry == fy.root
    IN  IF rx = ry
        THEN [ok |-> FALSE, parent |-> fy.parent, rank |-> uf.rank]
        ELSE IF uf.rank[rx] < uf.rank[ry]
        THEN [ok |-> TRUE, parent |-> [fy.parent EXCEPT ![rx] = ry], rank |-> uf.rank]
        ELSE [ok |-> TRUE, parent |-> [fy.parent EXCEPT ![ry] = rx],
              rank |-> IF uf.rank[rx] = uf.rank[ry]
                       THEN [uf.rank EXCEPT ![rx] = @ + 1]
                       ELSE uf.rank]

\* kruskal_mst, lines 192-201: the sorted de-duplicated edges, the
\* UnionFind over graph.nodes, the empty mst
KruskalStart(gr) ==
    [pc           |-> "loop",
     edges        |-> SortByWeight(UniqueEdges(gr.edges, 1, <<>>), 1, <<>>),
     i            |-> 1,
     parent       |-> [n \in gr.nodes |-> n],
     rank         |-> [n \in gr.nodes |-> 0],
     mst          |-> <<>>,
     total_weight |-> 0]

\* kruskal_mst, lines 202-205: one iteration of the for loop
KruskalStep(st) ==
    LET e == st.edges[st.i]
        r == union([parent |-> st.parent, rank |-> st.rank], e[1], e[2])
    IN  IF r.ok
        THEN [st EXCEPT !.i = @ + 1, !.parent = r.parent, !.rank = r.rank,
                        !.mst = Append(@, e), !.total_weight = @ + e[3]]
        ELSE [st EXCEPT !.i = @ + 1, !.parent = r.parent, !.rank = r.rank]

\* kruskal_mst: the for loop run to its end
RECURSIVE KruskalRun(_)
KruskalRun(st) ==
    IF st.i > Len(st.edges) THEN [st EXCEPT !.pc = "done"]
    ELSE KruskalRun(KruskalStep(st))

kruskal_mst(gr) == KruskalRun(KruskalStart(gr))

-----------------------------------------------------------------------------
(* BPlusTree (db/bplustree.py).  Node objects live in bt.nodes and are     *)
(* named by their index; keys are integers ordered as the code's keys are. *)
(* A node's children list is a Python list object: the list a node is      *)
(* bound to changes when _split_internal rebinds node.children to a slice, *)
(* while a for loop started before keeps reading the list object it began  *)
(* on.  gen counts the rebindings of node.children during the running      *)
(* insert and hist[k] is the content the k-th list object was left with.   *)

BtIdle == [pc |-> "idle"]

\* BPlusTreeNode.__init__
BPlusTreeNode(leaf) ==
    [leaf |-> leaf, keys |-> <<>>, children |-> <<>>, next |-> None,
     gen |-> 0, hist |-> <<>>]

\* BPlusTree.__init__
BPlusTreeInit(order) ==
    IF order < 3 THEN [pc |-> "raised"]
    ELSE [pc |-> "ready", order |-> order, root |-> 1,
          nodes |-> <<BPlusTreeNode(TRUE)>>]

\* s[a:] and s[:b] of a Python list (0-based bounds, clamped)
SliceFrom(s, a) == IF a >= Len(s) THEN <<>> ELSE SubSeq(s, a + 1, Len(s))

SliceTo(s, b) == IF b >= Len(s) THEN s ELSE SubSeq(s, 1, b)

\* list.insert(i, x) of a Python list (0-based position, clamped)
ListInsert(s, i, x) == SliceTo(s, i) \o <<x>> \o SliceFrom(s, i)

\* BPlusTree._find_leaf
RECURSIVE _find_leaf(_, _, _)
_find_leaf(t, node, key) ==
    LET n  == t.nodes[node]
        lt == {i \in 1..Len(n.keys) : key < n.keys[i]}
    IN  IF n.leaf THEN node
        ELSE IF lt # {} THEN _find_leaf(t, n.children[SetMin(lt)], key)
        ELSE _find_leaf(t, n.children[Len(n.children)], key)

\* BPlusTree.search
search(t, key) ==
    LET leaf == t.nodes[_find_leaf(t, t.root, key)]
        eq   == {i \in 1..Len(leaf.keys) : leaf.keys[i] = key}
    IN  IF eq # {} THEN leaf.children[SetMin(eq)] ELSE None

RECURSIVE _insert_in_parent(_, _, _, _, _)
RECURSIVE _split_internal(_, _)
RECURSIVE ForElse(_, _, _, _, _, _, _)

\* the list object that node.children was bound to at generation gen0
ChildrenList(t, node, gen0) ==
    IF t.nodes[node].gen = gen0 THEN t.nodes[node].children
    ELSE t.nodes[node].hist[gen0 + 1]

\* BPlusTree._insert_in_parent, lines 74-77: the for loop over the list
\* object of node.children from its j-th element on
ForElse(t, node, gen0, j, left_child, key, right_child) ==
    LET lst == ChildrenList(t, node, gen0)
    IN  IF j > Len(lst) THEN t
        ELSE IF ~t.nodes[lst[j]].leaf
        THEN ForElse(_insert_in_parent(t, lst[j], left_child, key, right_child),
                     node, gen0, j + 1, left_child, key, right_child)
        ELSE ForElse(t, node, gen0, j + 1, left_child, key, right_child)

\* BPlusTree._insert_in_parent
_insert_in_parent(t, node, left_child, key, right_child) ==
    LET n   == t.nodes[node]
        pos == {i \in 1..Len(n.children) : n.children[i] = left_child}
    IN  IF n.leaf THEN t
        ELSE IF pos = {}
        THEN ForElse(t, node, n.gen, 1, left_child, key, right_child)
        ELSE LET insert_pos == SetMin(pos)
                 t1 == [t EXCEPT
                          !.nodes[node].keys =
                              ListInsert(@, insert_pos - 1, key),
                          !.nodes[node].children =
                              ListInsert(@, insert_pos, right_child)]
             IN  IF Len(t1.nodes[node].children) > t.order
                 THEN _split_internal(t1, node)
                 ELSE t1

\* BPlusTree._split_internal
_split_internal(t, node) ==
    LET n            == t.nodes[node]
        mid          == Len(n.keys) \div 2
        promote_key  == n.keys[mid + 1]
        new_internal == Len(t.nodes) + 1
        t1 == [t EXCEPT
                 !.nodes = Append(
                     [@ EXCEPT ![node] =
                         [n EXCEPT !.keys = SliceTo(n.keys, mid),
                                   !.children = SliceTo(n.children, mid + 1),
                                   !.gen = n.gen + 1,
                                   !.hist = Append(n.hist, n.children)]],
                     [BPlusTreeNode(FALSE) EXCEPT
                         !.keys = SliceFrom(n.keys, mid + 1),
                         !.children = SliceFrom(n.children, mid + 1)])]
    IN  IF node = t.root
        THEN [t1 EXCEPT
                !.nodes = Append(@, [BPlusTreeNode(FALSE) EXCEPT
                                        !.keys = <<promote_key>>,
                                        !.children = <<node, new_internal>>]),
                !.root = Len(t1.nodes) + 1]
        ELSE _insert_in_parent(t1, t1.root, node, promote_key, new_internal)

\* BPlusTree._split_leaf
_split_leaf(t, leaf) ==
    LET n        == t.nodes[leaf]
        mid      == Len(n.keys) \div 2
        new_leaf == Len(t.nodes) + 1
        new_keys == SliceFrom(n.keys, mid)
        t1 == [t EXCEPT
                 !.nodes = Append(
                     [@ EXCEPT ![leaf] =
                         [n EXCEPT !.keys = SliceTo(n.keys, mid),
                                   !.children = SliceTo(n.children, mid),
                                   !.next = new_leaf]],
                     [BPlusTreeNode(TRUE) EXCEPT
                         !.keys = new_keys,
                         !.children = SliceFrom(n.children, mid),
                         !.next = n.next])]
    IN  IF leaf = t.root
        THEN [t1 EXCEPT
                !.nodes = Append(@, [BPlusTreeNode(FALSE) EXCEPT
                                        !.keys = <<new_keys[1]>>,
                                        !.children = <<leaf, new_leaf>>]),
                !.root = Len(t1.nodes) + 1]
        ELSE _insert_in_parent(t1, t1.root, leaf, new_keys[1], new_leaf)

\* the list objects abandoned by a finished insert are dropped
ForgetLists(t) ==
    [t EXCEPT !.nodes = [i \in 1..Len(t.nodes) |->
                            [t.nodes[i] EXCEPT !.gen = 0, !.hist = <<>>]]]

\* BPlusTree.insert
insert(t, key, value) ==
    LET leaf == _find_leaf(t, t.root, key)
        n    == t.nodes[leaf]
        idx  == Cardinality({i \in 1..Len(n.keys) :
                               \A j \in 1..i : n.keys[j] < key})
    IN  IF idx < Len(n.keys) /\ n.keys[idx + 1] = key
        THEN [t EXCEPT !.nodes[leaf].children[idx + 1] = value]
        ELSE LET t1 == [t EXCEPT
                          !.nodes[leaf].keys = ListInsert(@, idx, key),
                          !.nodes[leaf].children = ListInsert(@, idx, value)]
             IN  IF Len(t1.nodes[leaf].keys) >= t.order
                 THEN ForgetLists(_split_leaf(t1, leaf))
                 ELSE t1

\* BPlusTree.traverse_leaves, lines 103-104: the leftmost leaf
RECURSIVE LeftmostLeaf(_, _)
LeftmostLeaf(t, node) ==
    IF t.nodes[node].leaf THEN node
    ELSE LeftmostLeaf(t, t.nodes[node].children[1])

\* BPlusTree.traverse_leaves, lines 106-109: the entries from node on
RECURSIVE LeafChain(_, _, _)
LeafChain(t, node, res) ==
    IF node = None THEN res
    ELSE LET n == t.nodes[node]
         IN  LeafChain(t, n.next,
                       res \o [i \in 1..Len(n.keys) |->
                                 <<n.keys[i], n.children[i]>>])

\* BPlusTree.traverse_leaves
traverse_leaves(t) == LeafChain(t, LeftmostLeaf(t, t.root), <<>>)

-----------------------------------------------------------------------------
(* Simulator (sim/simulator.py).  The graphs of the simulator carry their  *)
(* weights in half minutes, so that a weight of 1 stands for 0.5 minute    *)
(* and 3 for 1.5 minutes; every other quantity is in whole minutes.  The   *)
(* values random.randint returns during demand generation are the entries  *)
(* of sim.randoms, in call order.                                          *)

SimIdle == [pc |-> "idle"]

\* no call of build_capacity_from_gtfs has returned
GtfsIdle == [pc |-> "idle"]

Max(a, b) == IF a >= b THEN a ELSE b

\* run, line 76: max(1, int(math.ceil(window_seconds / 60)))
MinutesOf(window_seconds) == Max(1, (window_seconds + 59) \div 60)

\* run, line 84: max(1, int(round(rate_h / 10.0))), round() rounding a tie
\* to the even neighbour
TotalOf(rate_h) ==
    LET q == rate_h \div 10
        r == rate_h % 10
    IN  Max(1, IF r < 5 THEN q
               ELSE IF r > 5 THEN q + 1
               ELSE IF q % 2 = 0 THEN q ELSE q + 1)

\* run, lines 80-94: the passengers of demand[k..] in generation order, the
\* next pid being Len(acc)
RECURSIVE Generate(_, _, _, _)
Generate(demand, randoms, k, acc) ==
    IF k > Len(demand) THEN acc
    ELSE LET d == demand[k]
             total == TotalOf(d[3])
         IN  Generate(demand, randoms, k + 1,
                      acc \o [j \in 1..total |->
                                [pid         |-> Len(acc) + j - 1,
                                 origin      |-> d[1],
                                 dest        |-> d[2],
                                 arrival_min |-> randoms[Len(acc) + j]]])

\* the number of passengers a demand generates
RECURSIVE PassengersUpTo(_, _)
PassengersUpTo(demand, k) ==
    IF k = 0 THEN 0 ELSE PassengersUpTo(demand, k - 1) + TotalOf(demand[k][3])

PassengerCount(demand) == PassengersUpTo(demand, Len(demand))

\* an insertion that puts p before the passengers of equal arrival minute
RECURSIVE InsertBeforeEqual(_, _)
InsertBeforeEqual(sorted, p) ==
    IF sorted = <<>> THEN <<p>>
    ELSE IF p.arrival_min <= Head(sorted).arrival_min THEN <<p>> \o sorted
    ELSE <<Head(sorted)>> \o InsertBeforeEqual(Tail(sorted), p)

\* insertion of p into a list sorted by arrival minute, after the passengers
\* of equal arrival minute
RECURSIVE InsertByArrival(_, _)
InsertByArrival(sorted, p) ==
    IF sorted = <<>> THEN <<p>>
    ELSE IF p.arrival_min < Head(sorted).arrival_min THEN <<p>> \o sorted
    ELSE <<Head(sorted)>> \o InsertByArrival(Tail(sorted), p)

\* run, line 97: passengers.sort(key=lambda x: x["arrival_min"]), stable
RECURSIVE SortByArrival(_, _, _)
SortByArrival(ps, k, acc) ==
    IF k > Len(ps) THEN acc
    ELSE SortByArrival(ps, k + 1, InsertByArrival(acc, ps[k]))

\* run, line 154: cap_map.get(u, {}).get(v, 0)
Remaining(cap_map, u, v) ==
    IF u \in DOMAIN cap_map /\ v \in DOMAIN cap_map[u] THEN cap_map[u][v]
    ELSE 0

\* run, lines 138-146: the weight of the first adjacency entry of u that
\* leads to v, 1.0 (two half minutes) if there is none
EdgeWeight(gr, u, v) ==
    LET hits == {k \in 1..Len(gr.adj[u]) : gr.adj[u][k][1] = v}
    IN  IF hits = {} THEN 2 ELSE gr.adj[u][SetMin(hits)][2]

\* a rounding that truncates instead of rounding up
needed_minutes_floor(w) == Max(1, w \div 2)

\* run, line 147: max(1, int(math.ceil(w))) of a weight in half minutes
needed_minutes(w) == Max(1, (w + 1) \div 2)

\* a loop that gives up one minute before the window ends
WindowOpenEarly(attempt_min, minutes) == attempt_min + 1 < minutes

\* run, line 152: while attempt_min < minutes
WindowOpen(attempt_min, minutes) == attempt_min < minutes

\* a boarding test that lets a passenger board a full bucket
CanBoardAlways(rem) == rem >= 0

\* run, line 155: if rem >= 1
CanBoard(rem) == rem >= 1

\* run, lines 76-111: the state of run before the first passenger
SimStart(s) ==
    LET minutes == MinutesOf(s.window_seconds)
    IN  [pc              |-> "route",
         capacity        |-> s.capacity,
         demand          |-> s.demand,
         window_seconds  |-> s.window_seconds,
         randoms         |-> s.randoms,
         minutes         |-> minutes,
         passengers      |-> SortByArrival(
                                 Generate(s.demand, s.randoms, 1, <<>>),
                                 1, <<>>),
         capacity_by_min |-> [m \in 1..minutes |-> s.capacity],
         results         |-> <<>>,
         edge_load_total |-> [e \in {} |-> 0],
         blocked         |-> 0,
         p               |-> 1,
         path            |-> NoPath,
         i               |-> 0,
         cur_min         |-> 0,
         t_min           |-> 0,
         wait_time       |-> 0,
         attempt_min     |-> 0,
         avg_travel_time |-> <<0, 0>>]

\* a record that leaves the blocked counter alone
SimRecordUncounted(s, traversed) ==
    [s EXCEPT !.pc = "route", !.p = @ + 1,
              !.results = Append(@, <<s.passengers[s.p].pid, s.path,
                                      IF traversed THEN s.t_min - s.cur_min
                                      ELSE Inf>>)]

\* run, lines 173-178: the result of a passenger whose for loop over the
\* path edges has ended, and the move to the next passenger
SimRecord(s, traversed) ==
    LET pid == s.passengers[s.p].pid
    IN  IF traversed
        THEN [s EXCEPT !.pc = "route", !.p = @ + 1,
                       !.results = Append(@, <<pid, s.path,
                                               s.t_min - s.cur_min>>)]
        ELSE [s EXCEPT !.pc = "route", !.p = @ + 1,
                       !.blocked = @ + 1,
                       !.results = Append(@, <<pid, s.path, Inf>>)]

\* run, lines 115-151: the routing of the next passenger.  Line 115 sets
\* cur_min before shortest_path is called; i and attempt_min are set by the
\* first iteration of the for loop (lines 132, 151), which a path of one
\* node does not have
SimRoute(gr, s) ==
    LET psg == s.passengers[s.p]
        r   == shortest_path(gr, psg.origin, psg.dest)
        s0  == [s EXCEPT !.cur_min = psg.arrival_min]
        s1  == [s0 EXCEPT !.t_min = psg.arrival_min,
                          !.wait_time = 0,
                          !.path = r.path]
    IN  IF r.raised THEN [s0 EXCEPT !.pc = "raised"]
        ELSE IF r.path = NoPath
        THEN [s0 EXCEPT !.p = @ + 1, !.blocked = @ + 1, !.path = NoPath,
                        !.results = Append(@, <<psg.pid, NoPath, Inf>>)]
        ELSE IF Len(r.path) = 1 THEN SimRecord(s1, TRUE)
        ELSE [s1 EXCEPT !.pc = "board", !.i = 1,
                        !.attempt_min = psg.arrival_min]

\* edge_load_total[(u, v)] += 1 on a defaultdict(int)
CountLoad(load, e) ==
    IF e \in DOMAIN load THEN [load EXCEPT ![e] = @ + 1]
    ELSE [x \in DOMAIN load \cup {e} |-> IF x = e THEN 1 ELSE load[x]]

\* a decrement on buckets that all share the dictionaries of one mapping
ConsumeShared(capacity_by_min, attempt_min, u, v) ==
    [m \in DOMAIN capacity_by_min |-> [capacity_by_min[m] EXCEPT ![u][v] = @ - 1]]

\* run, lines 153-157: cap_map = capacity_by_min[attempt_min] and
\* cap_map[u][v] -= 1 (minute 0 is the first bucket)
Consume(capacity_by_min, attempt_min, u, v) ==
    [capacity_by_min EXCEPT ![attempt_min + 1][u][v] = @ - 1]

\* run, lines 152-171: one test of the while condition with the iteration
\* or the loop exit that follows it
SimAttempt(gr, s) ==
    LET u   == s.path[s.i]
        v   == s.path[s.i + 1]
        rem == Remaining(s.capacity_by_min[s.attempt_min + 1], u, v)
    IN  IF ~WindowOpen(s.attempt_min, s.minutes) THEN SimRecord(s, FALSE)
        ELSE IF CanBoard(rem)
        THEN LET t1 == s.attempt_min + needed_minutes(EdgeWeight(gr, u, v))
                 s1 == [s EXCEPT
                          !.capacity_by_min = Consume(@, s.attempt_min, u, v),
                          !.edge_load_total = CountLoad(@, <<u, v>>),
                          !.t_min = t1]
             IN  IF s.i + 1 < Len(s.path)
                 THEN [s1 EXCEPT !.i = @ + 1, !.attempt_min = t1]
                 ELSE SimRecord(s1, TRUE)
        ELSE [s EXCEPT !.attempt_min = @ + 1, !.wait_time = @ + 1]

\* the sum of the finite travel times of results[1..k]
RECURSIVE SumFinite(_, _)
SumFinite(results, k) ==
    IF k = 0 THEN 0
    ELSE SumFinite(results, k - 1) +
         (IF results[k][3] < Inf THEN results[k][3] ELSE 0)

\* run, lines 181-190: the aggregate metrics; the average is kept as the
\* pair <<sum, count>> of the division, math.inf as <<Inf, 1>>
SimFinish(s) ==
    LET travel_times == {k \in 1..Len(s.results) : s.results[k][3] < Inf}
    IN  [s EXCEPT !.pc = "done",
                  !.avg_travel_time =
                      IF travel_times # {}
                      THEN <<SumFinite(s.results, Len(s.results)),
                             Cardinality(travel_times)>>
                      ELSE <<Inf, 1>>]

-----------------------------------------------------------------------------
(* Capacity Model (loaders.py, simulator.py).  build_graph_from_gtfs keeps  *)
(* under a canonical edge key a metadata record with the list of headways  *)
(* (seconds) accumulated for it; the other entries of the record (trip_ids,*)
(* route_ids, modes) are not read by the Capacity Model and are left out.  *)
(* The stop identifiers are "M1", "S1", "S2", "T1", modelled as 1, 2, 3, 4 *)
(* in their string order.                                                  *)

\* the first letter of a stop identifier
FirstLetter(n) == IF n = 1 THEN "M" ELSE IF n = 4 THEN "T" ELSE "S"

\* lines 187 (loaders.py) and 53 (simulator.py):
\* (u, v) if g.directed or u <= v else (v, u)
CanonicalKey(gr, u, v) ==
    IF gr.directed \/ u <= v THEN <<u, v>> ELSE <<v, u>>

\* build_graph_from_gtfs, lines 116-153: the graph with the stops of the
\* feed as nodes and g.edge_meta = {}
LoadStops(stops) ==
    [AddAllNodes(GraphInit(FALSE), stops) EXCEPT !.edge_meta = <<>>,
                                                 !.edge_meta_factory = "none"]

\* build_graph_from_gtfs, lines 157-230: one pair of consecutive stops of a
\* trip with the given travel weight and the headways of the trip
LoadStopPair(gr, u, v, w, headways) ==
    LET g1   == add_edge(gr, u, v, w, NoMeta)
        key  == CanonicalKey(g1, u, v)
        old  == IF key \in DOMAIN g1.edge_meta
                THEN g1.edge_meta[key].headways ELSE <<>>
        keys == DOMAIN g1.edge_meta \cup {key}
    IN  [g1 EXCEPT !.edge_meta =
            [k \in keys |->
                IF k = key THEN [kind |-> "dict", headways |-> old \o headways]
                ELSE g1.edge_meta[k]]]

\* A positive Python float (IEEE 754 binary64) is [bits, e]: the Precision
\* bits of its significand, leading 1 first, and the exponent e of the
\* leading bit, so its value is the sum of bits[i] * 2^(e - i + 1); the float
\* 0.0 is FloatZero.
Precision == 53

FloatZero == [bits |-> <<>>, e |-> 0]

\* bits + 1 as a binary number of the same length, for bits not all 1
IncBits(bits) ==
    LET zeros == {i \in 1..Len(bits) : bits[i] = 0}
        last  == CHOOSE i \in zeros : \A k \in zeros : k <= i
    IN  [i \in 1..Len(bits) |->
            IF i < last THEN bits[i] ELSE IF i = last THEN 1 ELSE 0]

\* the float with the significand kept, or the next float above it
RoundUpIf(up, kept, e) ==
    IF ~up THEN [bits |-> kept, e |-> e]
    ELSE IF \A k \in 1..Precision : kept[k] = 1
    THEN [bits |-> [k \in 1..Precision |-> IF k = 1 THEN 1 ELSE 0], e |-> e + 1]
    ELSE [bits |-> IncBits(kept), e |-> e]

\* round to nearest, ties to even, of the value whose binary digits are
\* the sequence `digits` (leading zeros allowed, not all zero), the last
\* digit at the binary position low, followed by a non-zero tail exactly
\* when sticky
RoundFrom(digits, low, sticky) ==
    LET first == CHOOSE i \in 1..Len(digits) :
                    digits[i] = 1 /\ \A k \in 1..(i - 1) : digits[k] = 0
        bit(k) == IF first + k - 1 <= Len(digits) THEN digits[first + k - 1] ELSE 0
        rest   == sticky \/ \E k \in (first + Precision + 1)..Len(digits) :
                                digits[k] = 1
    IN  RoundUpIf(bit(Precision + 1) = 1 /\ (rest \/ bit(Precision) = 1),
                  SubSeq(digits, first, first + Precision - 1),
                  low + (Len(digits) - first))

\* the float nearest to the value with the binary digits digits[1], ...
RoundToFloat(digits, low, sticky) ==
    RoundFrom(SubSeq(digits, 1, Len(digits)), low, sticky)

\* 2^k for 0 <= k <= 17
PowersOf2 ==
    <<1, 2, 4, 8, 16, 32, 64, 128, 256, 512, 1024, 2048, 4096, 8192, 16384,
      32768, 65536, 131072>>

Pow2(k) == PowersOf2[k + 1]

\* the binary digit of n at position k (2^k)
BitAt(n, k) == (n \div Pow2(k)) % 2

\* the long division of rem / b continued for n more digits of base
\* 2^ChunkBits: the digits and the last remainder
ChunkBits == 8
DivChunks == 10

RECURSIVE DivDigits(_, _, _)
DivDigits(rem, b, n) ==
    IF n = 0 THEN [digits |-> <<>>, rem |-> rem]
    ELSE LET t    == rem * Pow2(ChunkBits)
             tail == DivDigits(t % b, b, n - 1)
         IN  [digits |-> <<t \div b>> \o tail.digits, rem |-> tail.rem]

\* the float nearest to whole + frac, whole < 2^6 and frac the digits and
\* the remainder that DivDigits gives
QuotientFloat(whole, frac) ==
    RoundToFloat([k \in 1..(6 + ChunkBits * DivChunks) |->
                     IF k <= 6 THEN BitAt(whole, 6 - k)
                     ELSE BitAt(frac.digits[(k - 7) \div ChunkBits + 1],
                                ChunkBits - 1 - ((k - 7) % ChunkBits))],
                 -(ChunkBits * DivChunks), frac.rem # 0)

\* a / b in floats for integers 0 < a < 2^6 * b and 0 < b < 2^23 with
\* a / b >= 2^-26: the quotient to 6 binary digits before and
\* ChunkBits * DivChunks after the point, rounded to the nearest float
FloatDiv(a, b) == QuotientFloat(a \div b, DivDigits(a % b, b, DivChunks))

\* 60.0 / float(h) for an integer h with 0 < h < 2^23
FloatDiv60(h) == FloatDiv(60, h)

\* the value of the binary number bits[lo..hi]
RECURSIVE BitsValue(_, _, _)
BitsValue(bits, lo, hi) ==
    IF hi < lo THEN 0 ELSE 2 * BitsValue(bits, lo, hi - 1) + bits[hi]

\* the limbs of LimbBits binary digits of the significand, the least
\* significant first (the first limb of the significand is the shortest)
LimbBits == 14
Limbs == 4

LimbOf(bits, i) ==
    BitsValue(bits, Max(1, Precision - LimbBits * i + 1),
              Precision - LimbBits * (i - 1))

\* the limbs i.. of the product by n, the least significant first, and the
\* carry out of the last limb
RECURSIVE MulLimbs(_, _, _, _)
MulLimbs(bits, n, i, carry) ==
    IF i > Limbs THEN [limbs |-> <<>>, carry |-> carry]
    ELSE LET t    == LimbOf(bits, i) * n + carry
             tail == MulLimbs(bits, n, i + 1, t \div Pow2(LimbBits))
         IN  [limbs |-> <<t % Pow2(LimbBits)>> \o tail.limbs,
              carry |-> tail.carry]

\* the float nearest to the product prod (limbs and a carry below 2^17)
\* whose last binary digit is at the position low
ProductFloat(prod, low) ==
    RoundToFloat([k \in 1..(17 + LimbBits * Limbs) |->
                     IF k <= 17 THEN BitAt(prod.carry, 17 - k)
                     ELSE BitAt(prod.limbs[Limbs - (k - 18) \div LimbBits],
                                LimbBits - 1 - ((k - 18) % LimbBits))],
                 low, FALSE)

\* f * n for a float f and an integer 0 <= n < 2^16 (the product of the
\* float and float(n), rounded once)
FloatTimesInt(f, n) ==
    IF f = FloatZero \/ n = 0 THEN FloatZero
    ELSE ProductFloat(MulLimbs(f.bits, n, 1, 0), f.e - (Precision - 1))

\* int(round(f)) for a float 0 <= f < 2^30: round() takes the nearest
\* integer of the float's exact value, a tie to the even neighbour
RoundFloat(f) ==
    IF f = FloatZero \/ f.e < -1 THEN 0
    ELSE LET whole == BitsValue(f.bits, 1, f.e + 1)
             half  == f.bits[f.e + 2] = 1
             rest  == \E k \in (f.e + 3)..Precision : f.bits[k] = 1
         IN  IF half /\ (rest \/ whole % 2 = 1) THEN whole + 1 ELSE whole

\* _derive_capacity_from_graph, lines 61-62:
\* int(round((60.0 / float(min_headway_secs)) * self.vehicle_capacity))
HeadwayCapacity(vehicle_capacity, min_headway_secs) ==
    RoundFloat(FloatTimesInt(FloatDiv60(min_headway_secs), vehicle_capacity))

SeqMin(s) == SetMin({s[i] : i \in 1..Len(s)})

\* _derive_capacity_from_graph, lines 42-46
mode_multiplier(u, v) ==
    IF FirstLetter(u) = "M" \/ FirstLetter(v) = "M" THEN 3
    ELSE IF FirstLetter(u) = "T" \/ FirstLetter(v) = "T" THEN 2
    ELSE 1

\* _derive_capacity_from_graph, lines 41-66: the capacity of one adjacency
\* entry (u, v)
EffectiveCapacity(gr, base_capacity_per_minute, vehicle_capacity, u, v) ==
    LET base == base_capacity_per_minute * mode_multiplier(u, v)
        key  == CanonicalKey(gr, u, v)
        \* a list entry has no .get and the handler `except Exception` keeps
        \* the base; a dict without the key 'headways' gives None
        mins == IF /\ key \in DOMAIN gr.edge_meta
                   /\ gr.edge_meta[key].kind = "dict"
                   /\ "headways" \in DOMAIN gr.edge_meta[key]
                THEN gr.edge_meta[key].headways ELSE <<>>
    IN  IF mins # <<>> /\ SeqMin(mins) > 0
        THEN Max(base, HeadwayCapacity(vehicle_capacity, SeqMin(mins)))
        ELSE base

\* _derive_capacity_from_graph, lines 36-67
_derive_capacity_from_graph(gr, base_capacity_per_minute, vehicle_capacity) ==
    [u \in gr.nodes |->
        [v \in {gr.adj[u][k][1] : k \in 1..Len(gr.adj[u])} |->
            EffectiveCapacity(gr, base_capacity_per_minute, vehicle_capacity, u, v)]]

\* Simulator.__init__, lines 23-27, with capacity=None
SimulatorInit(gr, vehicle_capacity, base_capacity_per_minute) ==
    [pc |-> "constructed",
     vehicle_capacity |-> vehicle_capacity,
     base_capacity_per_minute |-> base_capacity_per_minute,
     capacity |-> _derive_capacity_from_graph(gr, base_capacity_per_minute,
                                               vehicle_capacity)]

(* build_capacity_from_gtfs of src/src/transport_opt/graph/gtfs_utils.py.  *)
(* The feed (the zip) is given by what the function reads of it:           *)
(*   complete   stop_times.txt, trips.txt and routes.txt are in the zip,   *)
(*   trips      the trips of stop_times.txt in the order of their trip_id, *)
(*              each a record with the fields                              *)
(*     stops    the stop_id of its rows in the order of stop_sequence,     *)
(*     start    the start_secs of its row of first_stop (NoStart for NaN), *)
(*     route    what the lookup of its route finds, a record with          *)
(*       route_id   the trip has a route in trips.txt and routes.txt has   *)
(*                  the column route_id,                                   *)
(*       row        a row of routes.txt has that route_id,                 *)
(*       has_type   routes.txt has the column route_type,                  *)
(*       route_type the route_type of the row, stripped,                   *)
(*       short      the first letter of the upper-case route_short_name.   *)
(* The metadata of an edge keeps the numbers the function computes; the    *)
(* trip examples and the route row are left out.                           *)

SetMax(S) == CHOOSE x \in S : \A y \in S : x >= y

\* observation_window_hours=None
NoHours == <<>>

\* build_capacity_from_gtfs, lines 92-99: the observation window in seconds
WindowSecs(starts, observation_window_hours) ==
    IF starts = {} \/ SetMin(starts) = SetMax(starts)
    THEN IF observation_window_hours # NoHours /\ observation_window_hours[1] # 0
         THEN observation_window_hours[1] * 3600 ELSE 3600
    ELSE Max(SetMax(starts) - SetMin(starts), 3600)

\* build_capacity_from_gtfs, line 42: the default vehicle_capacity_map
DefaultVehicleCapacityMap ==
    [metro |-> 1000, tm |-> 160, sitp |-> 80, default |-> 80]

\* build_capacity_from_gtfs, lines 136-142 and 145-151: the mode of a
\* route_short_name
ShortNameMode(short) ==
    IF short = "M" THEN "metro" ELSE IF short = "T" THEN "tm" ELSE "sitp"

\* build_capacity_from_gtfs, lines 117-159: the mode of the hop (u, v)
HopMode(route, u, v) ==
    IF ~route.route_id
    THEN IF FirstLetter(u) = "M" \/ FirstLetter(v) = "M" THEN "metro"
         ELSE IF FirstLetter(u) = "T" \/ FirstLetter(v) = "T" THEN "tm"
         ELSE "sitp"
    ELSE IF ~route.row THEN "default"
    ELSE IF ~route.has_type THEN ShortNameMode(route.short)
    ELSE IF route.route_type \in {"1", "2", "0"} THEN "metro"
    ELSE IF route.route_type \in {"3", "3.0", "3.00"} THEN "tm"
    ELSE ShortNameMode(route.short)

\* build_capacity_from_gtfs, line 161
VehicleCapacityOf(vehicle_capacity_map, mode) ==
    IF mode \in DOMAIN vehicle_capacity_map THEN vehicle_capacity_map[mode]
    ELSE IF "default" \in DOMAIN vehicle_capacity_map
    THEN vehicle_capacity_map["default"]
    ELSE 80

\* build_capacity_from_gtfs, line 115: (cnt / window_secs) * 60.0
VehPerMin(cnt, window_secs) == FloatTimesInt(FloatDiv(cnt, window_secs), 60)

\* build_capacity_from_gtfs, line 163:
\* max(1, int(round(veh_per_min * veh_cap)))
PaxPerMin(veh_per_min, veh_cap) ==
    Max(1, RoundFloat(FloatTimesInt(veh_per_min, veh_cap)))

\* the start_secs of a trip whose first stop has no time
NoStart == <<>>

\* build_capacity_from_gtfs, lines 85-87: the positions i of a trip with a
\* next stop
HopPositions(trip) == 1..(Len(trip.stops) - 1)

\* build_capacity_from_gtfs, line 87: u = seq[i]; v = seq[i+1]
HopAt(trip, i) == <<trip.stops[i], trip.stops[i + 1]>>

\* build_capacity_from_gtfs, lines 84-88: edge_counts[(u, v)], one for
\* every position of every trip where the hop is h
EdgeCount(feed, h) ==
    Cardinality({ti \in UNION {{<<t, i>> : i \in HopPositions(feed.trips[t])} :
                                  t \in 1..Len(feed.trips)} :
                    HopAt(feed.trips[ti[1]], ti[2]) = h})

\* build_capacity_from_gtfs, lines 84-89: edge_trips[(u, v)], the trips
\* that run the hop h
EdgeTrips(feed, h) ==
    {t \in 1..Len(feed.trips) :
        \E i \in HopPositions(feed.trips[t]) : HopAt(feed.trips[t], i) = h}

\* build_capacity_from_gtfs, lines 84-89: the keys of edge_counts
FeedKeys(feed) ==
    UNION {{HopAt(feed.trips[t], i) : i \in HopPositions(feed.trips[t])} :
              t \in 1..Len(feed.trips)}

\* build_capacity_from_gtfs, lines 72-77 and 92-93: the start seconds that
\* min() and max() see
FeedStarts(feed) ==
    {feed.trips[t].start[1] :
        t \in {x \in 1..Len(feed.trips) : feed.trips[x].start # NoStart}}

\* build_capacity_from_gtfs, line 119: sample_trip = next(iter(edge_trips[(u,v)])).
\* The trip a set of strings yields first depends on the hash seed of the
\* process, so every choice of one trip per hop is a possible outcome.
SampleTrips(feed) ==
    {sample \in [FeedKeys(feed) -> 1..Len(feed.trips)] :
        \A h \in FeedKeys(feed) : sample[h] \in EdgeTrips(feed, h)}

\* build_capacity_from_gtfs, lines 113-180: the metadata of the hop h
HopMeta(feed, h, sample_trip, window_secs, vehicle_capacity_map) ==
    LET cnt         == EdgeCount(feed, h)
        mode        == HopMode(feed.trips[sample_trip].route, h[1], h[2])
        veh_per_min == VehPerMin(cnt, window_secs)
        veh_cap     == VehicleCapacityOf(vehicle_capacity_map, mode)
    IN  [kind |-> "dict",
         edge_trip_count |-> cnt,
         mode |-> mode,
         veh_per_min |-> veh_per_min,
         veh_capacity |-> veh_cap,
         pax_per_min_est |-> PaxPerMin(veh_per_min, veh_cap),
         window_secs |-> window_secs]

\* build_capacity_from_gtfs, lines 41-192, with the sample trips drawn as
\* `sample`: ValueError for a feed that lacks a table (line 59); else the
\* capacity returned and the graph, whose edge_meta holds the metadata of
\* every hop under the key (u, v) of the hop as the trip runs it, in place
\* of what the key held
build_capacity_from_gtfs(gr, feed, sample, vehicle_capacity_map, observation_window_hours) ==
    IF ~feed.complete THEN [raised |-> TRUE, capacity |-> <<>>, graph |-> gr]
    ELSE
    LET window_secs == WindowSecs(FeedStarts(feed), observation_window_hours)
        keys  == FeedKeys(feed)
        order == CHOOSE q \in [1..Cardinality(keys) -> keys] :
                    \A h \in keys : \E i \in DOMAIN q : q[i] = h
        \* the metadata of the hops, computed once each
        metas == SubSeq([i \in 1..Cardinality(keys) |->
                            HopMeta(feed, order[i], sample[order[i]],
                                    window_secs, vehicle_capacity_map)],
                        1, Cardinality(keys))
        meta(h) == metas[CHOOSE i \in 1..Cardinality(keys) : order[i] = h]
    IN  [raised |-> FALSE,
         capacity |->
            [u \in {h[1] : h \in keys} \cup gr.nodes |->
                [v \in {h[2] : h \in {k \in keys : k[1] = u}} |->
                    meta(<<u, v>>).pax_per_min_est]],
         graph |->
            [gr EXCEPT !.edge_meta =
                [k \in DOMAIN gr.edge_meta \cup keys |->
                    IF k \in keys THEN meta(k) ELSE gr.edge_meta[k]]]]

-----
(* Specification of dijkstra / shortest_path: a graph is built, dijkstra is *)
(* called on a source and runs one loop iteration per step.                 *)

InitDijkstra ==
    /\ gtfs = GtfsIdle
    /\ g \in InputGraphs
    /\ dj = DjIdle
    /\ ast = AstIdle
    /\ ek = EkIdle
    /\ kr = KrIdle
    /\ bt = BtIdle
    /\ sim = SimIdle

DjBegin ==
    /\ dj.pc = "idle"
    /\ \E source \in AllIds : dj' = DijkstraStart(g, source)
    /\ UNCHANGED <<g, ast, ek, kr, bt, sim, gtfs>>

DjIterate ==
    /\ dj.pc = "loop"
    /\ dj.pq # {}
    /\ dj' = DijkstraStep(g, dj)
    /\ UNCHANGED <<g, ast, ek, kr, bt, sim, gtfs>>

DjReturn ==
    /\ dj.pc = "loop"
    /\ dj.pq = {}
    /\ dj' = [dj EXCEPT !.pc = "done"]
    /\ UNCHANGED <<g, ast, ek, kr, bt, sim, gtfs>>

NextDijkstra == DjBegin \/ DjIterate \/ DjReturn

SpecDijkstra == InitDijkstra /\ [][NextDijkstra]_vars

-----------------------------------------------------------------------------------------------------------------------------------------------------
(* Specification of astar: a graph is built and astar is called once on a  *)
(* source, a target and a heuristic.                                       *)

ZeroHeuristic == [n \in AllIds |-> 0]

\* the (source, target, heuristic) arguments of the astar calls: every
\* target and heuristic from source 1, every pair of nodes with the zero
\* heuristic (heuristic=None), and the calls on AbsentId
AstarQueries ==
    {<<1, t, h>> : t \in NodeIds, h \in Heuristics}
        \cup {<<s, t, ZeroHeuristic>> : s \in NodeIds, t \in NodeIds}
        \cup {<<AbsentId, 1, ZeroHeuristic>>,
              <<1, AbsentId, ZeroHeuristic>>,
              <<AbsentId, AbsentId, ZeroHeuristic>>}

InitAstar ==
    /\ gtfs = GtfsIdle
    /\ g \in InputGraphs
    /\ dj = DjIdle
    /\ ast = AstIdle
    /\ ek = EkIdle
    /\ kr = KrIdle
    /\ bt = BtIdle
    /\ sim = SimIdle

AstarCall ==
    /\ ast.pc = "idle"
    /\ \E q \in AstarQueries : ast' = astar(g, q[1], q[2], q[3])
    /\ UNCHANGED <<g, dj, ek, kr, bt, sim, gtfs>>

NextAstar == AstarCall

SpecAstar == InitAstar /\ [][NextAstar]_vars

-----
(* Claims on the Path Engine *)

\* the result of shortest_path for the query of the astar run
AstShortest == shortest_path(g, ast.source, ast.target)

AstReachable ==
    /\ ast.source \in g.nodes
    /\ ast.target \in g.nodes
    /\ MinCostFrom(g, ast.source)[ast.target] < Inf

\* C1: for a reachable pair of graph nodes and an admissible heuristic
\* (consistent or not), astar returns the cost that shortest_path returns.
C1_AstarAgreesWithDijkstra ==
    (ast.pc \in {"done", "raised"} /\ AstReachable /\ Admissible(g, ast.target, ast.h))
        => /\ ast.pc = "done"
           /\ ast.cost = AstShortest.cost

\* C2: for a reachable pair of graph nodes, shortest_path returns a path
\* that starts at the source, ends at the target and follows edges of the
\* graph, with the least total weight of a source-target path as its cost.
C2_ShortestPathMinimal ==
    dj.pc = "done" =>
        LET D == MinCostFrom(g, dj.source)
        IN  \A t \in g.nodes :
                D[t] < Inf =>
                    LET r == ShortestPathOf(dj, dj.source, t)
                    IN  /\ ~r.raised
                        /\ r.path # NoPath
                        /\ r.path[1] = dj.source
                        /\ r.path[Len(r.path)] = t
                        /\ IsWalk(g, r.path)
                        /\ r.cost = D[t]

\* a finished run in which a two-hop detour beat a heavier direct edge
C2_Witness ==
    /\ dj.pc = "done"
    /\ \E t \in g.nodes :
          LET r == ShortestPathOf(dj, dj.source, t)
          IN  /\ Len(r.path) >= 3
              /\ \E e \in AdjEdges(g) :
                    e[1] = dj.source /\ e[2] = t /\ e[3] > r.cost

\* C3: shortest_path(g, s, s) returns the path [s] with cost 0 for every
\* node identifier s.
C3_SourceEqualsTarget ==
    dj.pc \in {"done", "raised"} =>
        ShortestPathOf(dj, dj.source, dj.source)
            = [raised |-> FALSE, path |-> <<dj.source>>, cost |-> 0]

\* C4: for two graph nodes with no path between them, shortest_path and
\* astar both return (no path, infinite cost) and do not raise.
C4_UnreachableIsNormalResult ==
    (/\ ast.pc \in {"done", "raised"}
     /\ ast.source \in g.nodes
     /\ ast.target \in g.nodes
     /\ MinCostFrom(g, ast.source)[ast.target] = Inf)
        => /\ ast.pc = "done"
           /\ ast.path = NoPath
           /\ ast.cost = Inf
           /\ AstShortest = [raised |-> FALSE, path |-> NoPath, cost |-> Inf]

\* an astar search that expanded nodes and ran out of open nodes without
\* reaching its target
C4_Witness ==
    /\ ast.pc = "done"
    /\ ast.source \in g.nodes
    /\ ast.target \in g.nodes
    /\ MinCostFrom(g, ast.source)[ast.target] = Inf
    /\ Cardinality(ast.closed) >= 2
    /\ ast.h[ast.source] > 0

\* C5: for any source and target identifiers, added to the graph or not,
\* dijkstra, shortest_path and astar return a normal result.
C5_LookupMissNeverRaises ==
    ast.pc \in {"done", "raised"} =>
        /\ ast.pc = "done"
        /\ dijkstra(g, ast.source).pc = "done"
        /\ ~AstShortest.raised

-----------------------------------------------------------------------------
(* Specification of edmonds_karp: the call on a capacity mapping, then the *)
(* while loop, one bfs() and one augmentation per step.                    *)

\* the entries that are also drawn with capacity 0: the two directions of
\* the pair 2-3 (a zero entry differs from an absent one where flow on the
\* opposite entry can be cancelled)
ZeroCand == {<<2, 3>>, <<3, 2>>}

\* the input capacity mappings
CapChoices ==
    {cp \in [1..Len(FlowCand) -> 0..NoCap] :
        \A i \in 1..Len(FlowCand) : cp[i] = 0 => FlowCand[i] \in ZeroCand}

\* the sinks of the calls (the source is 1)
FlowSinks == {6}

InitFlow ==
    /\ gtfs = GtfsIdle
    /\ g = GraphInit(FALSE)
    /\ dj = DjIdle
    /\ ast = AstIdle
    /\ ek \in {EkStart(cp, 1, t) : cp \in CapChoices, t \in FlowSinks}
    /\ kr = KrIdle
    /\ bt = BtIdle
    /\ sim = SimIdle

EkBfs ==
    /\ ek.pc = "bfs"
    /\ ek' = EkSearch(ek)
    /\ UNCHANGED <<g, dj, ast, kr, bt, sim, gtfs>>

EkAugment ==
    /\ ek.pc = "augment"
    /\ ek' = EkPush(ek)
    /\ UNCHANGED <<g, dj, ast, kr, bt, sim, gtfs>>

NextFlow == EkBfs \/ EkAugment

SpecFlow == InitFlow /\ [][NextFlow]_vars

-----------------------------------------------------------------------------
(* Claims on the Max-Flow Engine *)

RECURSIVE SetSum(_, _)
\* the sum of f[x] over the elements x of S
SetSum(f, S) ==
    IF S = {} THEN 0
    ELSE LET x == CHOOSE y \in S : TRUE IN f[x] + SetSum(f, S \ {x})

\* total capacity of the entries leaving S
CutCapacity(st, S) ==
    SetSum([e \in S \X (FlowNodes \ S) |-> st.cap[e[1]][e[2]]],
           S \X (FlowNodes \ S))

\* the node sets that separate the source from the sink
Cuts(st) ==
    {S \in SUBSET FlowNodes : st.source \in S /\ st.sink \notin S}

MinCut(st) == SetMin({CutCapacity(st, S) : S \in Cuts(st)})

Inflow(st, n) == SetSum([x \in FlowNodes |-> st.flow[x][n]], FlowNodes)

Outflow(st, n) == SetSum([x \in FlowNodes |-> st.flow[n][x]], FlowNodes)

\* the nodes reachable from the source in the residual network of the
\* flow: forward over capacity - flow > 0, backward over positive flow
RECURSIVE ResidualReach(_, _)
ResidualReach(st, R) ==
    LET R1 == R \cup {v \in FlowNodes :
                        \E u \in R : \/ st.cap[u][v] - st.flow[u][v] > 0
                                     \/ st.flow[v][u] > 0}
    IN  IF R1 = R THEN R ELSE ResidualReach(st, R1)

\* C6: edmonds_karp terminates on every capacity mapping with non-negative
\* integer capacities, source and sink.  The loop body is a deterministic
\* function of the state at the loop head, so termination requires that no
\* iteration (bfs, then augmentation) reproduces the state it started from.
C6_EdmondsKarpTerminates ==
    ek.pc = "bfs" =>
        LET found == EkSearch(ek)
        IN  found.pc = "augment" => EkPush(found) # ek

\* C7: the returned flow value never exceeds the capacity of a cut that
\* separates a source from a distinct sink.
C7_FlowAtMostEveryCut ==
    (ek.pc = "done" /\ ek.source # ek.sink) =>
        \A S \in Cuts(ek) : ek.max_flow <= CutCapacity(ek, S)

\* a returned flow of two units that saturates a cut
C7_Witness ==
    /\ ek.pc = "done"
    /\ ek.source # ek.sink
    /\ ek.max_flow = 2
    /\ ek.max_flow = MinCut(ek)

\* C8: after every augmentation and in the returned mapping, inflow equals
\* outflow at every node other than the source and the sink.
C8_FlowConservation ==
    ek.pc \in {"bfs", "done"} =>
        \A n \in FlowNodes \ {ek.source, ek.sink} : Inflow(ek, n) = Outflow(ek, n)

\* a returned mapping after at least two augmentations, with flow through
\* an inner node
C8_Witness ==
    /\ ek.pc = "done"
    /\ ek.max_flow >= 2
    /\ \E n \in FlowNodes \ {ek.source, ek.sink} : Inflow(ek, n) > 0

\* C9: when edmonds_karp returns, the residual network of the returned flow
\* has no path from the source to the sink, and the returned value is the
\* minimum cut capacity.
C9_ReturnsMaxFlow ==
    (ek.pc = "done" /\ ek.source # ek.sink) =>
        /\ ek.sink \notin ResidualReach(ek, {ek.source})
        /\ ek.max_flow = MinCut(ek)

-----------------------------------------------------------------------------
(* Specification of kruskal_mst: a graph is built, kruskal_mst is called   *)
(* and handles one sorted edge per step.                                   *)

InitMST ==
    /\ gtfs = GtfsIdle
    /\ g \in InputGraphs
    /\ dj = DjIdle
    /\ ast = AstIdle
    /\ ek = EkIdle
    /\ kr = KrIdle
    /\ bt = BtIdle
    /\ sim = SimIdle

KrBegin ==
    /\ kr.pc = "idle"
    /\ kr' = KruskalStart(g)
    /\ UNCHANGED <<g, dj, ast, ek, bt, sim, gtfs>>

KrEdge ==
    /\ kr.pc = "loop"
    /\ kr.i <= Len(kr.edges)
    /\ kr' = KruskalStep(kr)
    /\ UNCHANGED <<g, dj, ast, ek, bt, sim, gtfs>>

KrReturn ==
    /\ kr.pc = "loop"
    /\ kr.i > Len(kr.edges)
    /\ kr' = [kr EXCEPT !.pc = "done"]
    /\ UNCHANGED <<g, dj, ast, ek, bt, sim, gtfs>>

NextMST == KrBegin \/ KrEdge \/ KrReturn

SpecMST == InitMST /\ [][NextMST]_vars

-----------------------------------------------------------------------------
(* Claims on the MST Engine *)

\* the nodes joined to the nodes of R by the edges es[1..k], in either
\* direction
RECURSIVE Joined(_, _, _)
Joined(es, k, R) ==
    LET R1 == R \cup {n \in UNION {{es[j][1], es[j][2]} : j \in 1..k} :
                        \E j \in 1..k : \/ (es[j][1] \in R /\ es[j][2] = n)
                                        \/ (es[j][2] \in R /\ es[j][1] = n)}
    IN  IF R1 = R THEN R ELSE Joined(es, k, R1)

\* the number of connected components of the graph
ComponentCount(gr) ==
    Cardinality({Joined(gr.edges, Len(gr.edges), {n}) : n \in gr.nodes})

\* C10: the accepted edges form a forest: each accepted edge joined two
\* nodes that the edges accepted before it did not connect, and the number
\* of accepted edges never exceeds node count - component count.
C10_KruskalForest ==
    kr.pc \in {"loop", "done"} =>
        /\ \A k \in 1..Len(kr.mst) :
              kr.mst[k][2] \notin Joined(kr.mst, k - 1, {kr.mst[k][1]})
        /\ Len(kr.mst) <= Cardinality(g.nodes) - ComponentCount(g)

\* a finished run that accepted two edges and rejected an edge inside one
\* component
C10_Witness ==
    /\ kr.pc = "done"
    /\ Len(kr.mst) >= 2
    /\ Len(kr.edges) > Len(kr.mst)

\* the unordered endpoint pairs of the graph's edges
CanonPairs(gr) == {CanonKey(gr.edges[i]) : i \in 1..Len(gr.edges)}

\* the least weight observed between the endpoints of pair p
PairWeight(gr, p) ==
    SetMin({gr.edges[i][3] : i \in {j \in 1..Len(gr.edges) :
                                       CanonKey(gr.edges[j]) = p}})

\* the nodes joined to the nodes of R by the pairs of F
RECURSIVE JoinedBy(_, _)
JoinedBy(F, R) ==
    LET R1 == R \cup {p[2] : p \in {q \in F : q[1] \in R}}
                 \cup {p[1] : p \in {q \in F : q[2] \in R}}
    IN  IF R1 = R THEN R ELSE JoinedBy(F, R1)

\* the spanning forests of the graph: sets of pairs without a cycle that
\* connect whatever the graph connects
SpanningForests(gr) ==
    {F \in SUBSET CanonPairs(gr) :
        /\ Cardinality(F) = Cardinality(gr.nodes) - ComponentCount(gr)
        /\ \A n \in gr.nodes :
              JoinedBy(F, {n}) = Joined(gr.edges, Len(gr.edges), {n})}

ForestWeight(gr, F) == SetSum([p \in F |-> PairWeight(gr, p)], F)

\* C11: the total weight returned by kruskal_mst is the least total weight
\* of a spanning forest of the graph, parallel edges counting with their
\* least weight and a disconnected graph summed over its components.
C11_KruskalMinimumWeight ==
    kr.pc = "done" =>
        /\ kr.total_weight =
              SetMin({ForestWeight(g, F) : F \in SpanningForests(g)})
        /\ kr.total_weight = SetSum([k \in 1..Len(kr.mst) |-> kr.mst[k][3]],
                                    1..Len(kr.mst))

\* a finished run on a graph that has a heavier spanning forest, a pair
\* with two observed weights and an edge left out
C11_Witness ==
    /\ kr.pc = "done"
    /\ Len(kr.mst) >= 2
    /\ \E F \in SpanningForests(g) : ForestWeight(g, F) > kr.total_weight
    /\ \E i, j \in 1..Len(g.edges) :
          /\ CanonKey(g.edges[i]) = CanonKey(g.edges[j])
          /\ g.edges[i][3] < g.edges[j][3]

-----------------------------------------------------------------------------
(* Specification of Graph: a graph is constructed and add_node / add_edge  *)
(* are called with nodes and weights of the caller's choice, negative      *)
(* weights included.                                                       *)

\* the endpoint pairs of the add_edge calls
GraphPairs == {<<1, 2>>, <<2, 1>>, <<2, 2>>}

\* the weights of the add_edge calls
GraphWeights == {-1, MaxWeight}

\* the nodes of the add_node calls
GraphNodes == {1, 2, 3}

InitGraph ==
    /\ gtfs = GtfsIdle
    /\ g \in {GraphInit(d) : d \in BOOLEAN}
    /\ dj = DjIdle
    /\ ast = AstIdle
    /\ ek = EkIdle
    /\ kr = KrIdle
    /\ bt = BtIdle
    /\ sim = SimIdle

\* g.add_node(node)
GrAddNode ==
    /\ \E node \in GraphNodes : g' = add_node(g, node)
    /\ UNCHANGED <<dj, ast, ek, kr, bt, sim, gtfs>>

\* the meta arguments of the add_edge calls: None, {} and {'headways': [40]}
GraphMetas ==
    {NoMeta, <<[k \in {} |-> 0]>>, <<[headways |-> <<40>>]>>}

\* g.add_edge(u, v, weight, meta)
GrAddEdge ==
    /\ Len(g.edges) < MaxEdges
    /\ \E p \in GraphPairs, w \in GraphWeights, meta \in GraphMetas :
          g' = add_edge(g, p[1], p[2], w, meta)
    /\ UNCHANGED <<dj, ast, ek, kr, bt, sim, gtfs>>

NextGraph == GrAddNode \/ GrAddEdge

SpecGraph == InitGraph /\ [][NextGraph]_vars

\* C14: add_edge with a negative weight is rejected and leaves the graph
\* unchanged, so no reachable graph holds a negative-weight edge in its
\* edge list or in an adjacency list.
C14_NoNegativeWeightEdge ==
    /\ \A i \in 1..Len(g.edges) : g.edges[i][3] >= 0
    /\ \A u \in DOMAIN g.adj :
          \A i \in 1..Len(g.adj[u]) : g.adj[u][i][2] >= 0

-----------------------------------------------------------------------------
(* Specification of BPlusTree: a tree is constructed and insert is called  *)
(* with keys and values of the caller's choice.  bt.last records, for each *)
(* key, the value of the most recent insert call (None: never inserted).   *)

BtKeys == 1..MaxKey

BtValues == {1, 2}

InitBTree ==
    /\ gtfs = GtfsIdle
    /\ g = GraphInit(FALSE)
    /\ dj = DjIdle
    /\ ast = AstIdle
    /\ ek = EkIdle
    /\ kr = KrIdle
    /\ bt = BtIdle
    /\ sim = SimIdle

\* BPlusTree(order)
BtNew ==
    /\ bt.pc = "idle"
    /\ \E order \in 2..MaxOrder :
          bt' = IF order < 3 THEN BPlusTreeInit(order)
                ELSE [pc |-> "ready", order |-> order, root |-> 1,
                      nodes |-> BPlusTreeInit(order).nodes,
                      last |-> [k \in BtKeys |-> None]]
    /\ UNCHANGED <<g, dj, ast, ek, kr, sim, gtfs>>

\* tree.insert(key, value)
BtInsert ==
    /\ bt.pc = "ready"
    /\ Len(traverse_leaves(bt)) < MaxEntries
    /\ \E key \in BtKeys, value \in BtValues :
          /\ Cardinality({k \in BtKeys :
                 [bt.last EXCEPT ![key] = value][k] > 1}) <= MaxOverwritten
          /\ bt' = [insert(bt, key, value) EXCEPT !.last[key] = value]
    /\ UNCHANGED <<g, dj, ast, ek, kr, sim, gtfs>>

NextBTree == BtNew \/ BtInsert

SpecBTree == InitBTree /\ [][NextBTree]_vars

-----------------------------------------------------------------------------
(* Claims on the Ordered Index *)

\* C12: after any sequence of insert calls traverse_leaves yields the
\* entries in strictly ascending key order, without duplicate keys, as many
\* as there are distinct keys inserted.
C12_TraverseAscendingDistinct ==
    bt.pc = "ready" =>
        LET res == traverse_leaves(bt)
        IN  /\ \A i \in 1..Len(res) - 1 : res[i][1] < res[i + 1][1]
            /\ Len(res) = Cardinality({k \in BtKeys : bt.last[k] # None})

\* C13: after any sequence of insert calls search(k) returns the value of
\* the most recent insert of k for every key inserted and None for every
\* key never inserted.
C13_SearchReturnsLastInsert ==
    bt.pc = "ready" => \A k \in BtKeys : search(bt, k) = bt.last[k]

-----------------------------------------------------------------------------
(* Specification of Simulator.run: a Simulator is constructed on a graph   *)
(* and a capacity mapping, run is called with a demand and a window, and   *)
(* handles one routing or one test of the boarding loop per step.          *)

\* weights of the simulator graphs, in half minutes
SimWeights == {0, 1, 3}

\* the undirected graph on the nodes 1, 2, 3 with an edge 1-2 of weight w12,
\* a second edge 1-2 for each weight in par, an edge 2-3 for each in w23
SimGraph(w12, par, w23) ==
    LET g0 == AddAllNodes(GraphInit(FALSE), {1, 2, 3})
        g1 == add_edge(g0, 1, 2, w12, NoMeta)
        g2 == IF par = <<>> THEN g1 ELSE add_edge(g1, 1, 2, par[1], NoMeta)
    IN  IF w23 = <<>> THEN g2 ELSE add_edge(g2, 2, 3, w23[1], NoMeta)

SimGraphs ==
    {SimGraph(w12, par, w23) :
        w12 \in SimWeights, par \in {<<>>, <<1>>},
        w23 \in {<<>>, <<1>>, <<3>>}}

\* the capacity mapping {1: {2: c12[1]}, 2: {3: c23[1]}}, an empty sequence
\* leaving the entry out
SimCapacity(c12, c23) ==
    [u \in (IF c12 = <<>> THEN {} ELSE {1}) \cup
            (IF c23 = <<>> THEN {} ELSE {2}) |->
        IF u = 1 THEN [v \in {2} |-> c12[1]] ELSE [v \in {3} |-> c23[1]]]

SimCapacities ==
    {SimCapacity(c12, c23) :
        c12 \in {<<>>} \cup {<<c>> : c \in 0..MaxCap},
        c23 \in {<<>>, <<1>>}}

\* the demands: one tuple that generates 1, 2 or MaxPassengers passengers,
\* two tuples of different origins, a trip from a node to itself and a trip
\* from an origin that was never added to the graph
SimDemands ==
    {<< <<1, 3, r>> >> : r \in {5, 25, 10 * MaxPassengers}} \cup
    {<< <<2, 3, 5>>, <<1, 3, 5>> >>, << <<1, 1, 5>> >>,
     << <<AbsentId, 3, 5>> >>}

\* the windows, in seconds: one minute and MaxMinutes minutes
SimWindows == {0, 60 * MaxMinutes - 59}

\* a call of run still to be made
SimCall(capacity, demand, window_seconds, randoms) ==
    [pc |-> "idle", capacity |-> capacity, demand |-> demand,
     window_seconds |-> window_seconds, randoms |-> randoms]

InitSim ==
    /\ gtfs = GtfsIdle
    /\ g \in SimGraphs
    /\ dj = DjIdle
    /\ ast = AstIdle
    /\ ek = EkIdle
    /\ kr = KrIdle
    /\ bt = BtIdle
    /\ \E c \in SimCapacities, d \in SimDemands, w \in SimWindows :
          \E r \in [1..PassengerCount(d) -> 0..(MinutesOf(w) - 1)] :
              sim = SimCall(c, d, w, r)

\* run is called: demand generation, sort, capacity buckets
SimBegin ==
    /\ sim.pc = "idle"
    /\ sim' = SimStart(sim)
    /\ UNCHANGED <<g, dj, ast, ek, kr, bt, gtfs>>

\* the next passenger is routed
SimRouteNext ==
    /\ sim.pc = "route"
    /\ sim.p <= Len(sim.passengers)
    /\ sim' = SimRoute(g, sim)
    /\ UNCHANGED <<g, dj, ast, ek, kr, bt, gtfs>>

\* the boarding loop tests its condition once
SimBoard ==
    /\ sim.pc = "board"
    /\ sim' = SimAttempt(g, sim)
    /\ UNCHANGED <<g, dj, ast, ek, kr, bt, gtfs>>

\* every passenger is handled: run returns
SimEnd ==
    /\ sim.pc = "route"
    /\ sim.p > Len(sim.passengers)
    /\ sim' = SimFinish(sim)
    /\ UNCHANGED <<g, dj, ast, ek, kr, bt, gtfs>>

NextSim == SimBegin \/ SimRouteNext \/ SimBoard \/ SimEnd

SpecSim == InitSim /\ [][NextSim]_vars

-----------------------------------------------------------------------------
(* Specification of the capacity-bound scenario (tests/test_simulator.py): *)
(* the undirected graph A-B-C (1-2-3) with weights 1.0, capacity 1 on      *)
(* every directed edge, one demand A->C and a 10-minute window.            *)

\* window_seconds of the scenario
ScenarioWindow == 600

\* hourly rates of the demand: 2 passengers and the 6 of test_sim_basic
ScenarioRates == {20, 60}

ScenarioGraph ==
    add_edge(add_edge(GraphInit(FALSE), 1, 2, 2, NoMeta), 2, 3, 2, NoMeta)

ScenarioCapacity ==
    [u \in {1, 2, 3} |->
        [v \in (IF u = 2 THEN {1, 3} ELSE {2}) |-> 1]]

\* the arrival minutes drawn: every assignment for up to two passengers,
\* for more passengers the assignments in which pids arrive in order
ScenarioRandoms(n) ==
    {r \in [1..n -> 0..(MinutesOf(ScenarioWindow) - 1)] :
        n <= 2 \/ \A j \in 1..(n - 1) : r[j] <= r[j + 1]}

InitScenario ==
    /\ gtfs = GtfsIdle
    /\ g = ScenarioGraph
    /\ dj = DjIdle
    /\ ast = AstIdle
    /\ ek = EkIdle
    /\ kr = KrIdle
    /\ bt = BtIdle
    /\ \E rate \in ScenarioRates :
          \E r \in ScenarioRandoms(TotalOf(rate)) :
              sim = SimCall(ScenarioCapacity, << <<1, 3, rate>> >>,
                            ScenarioWindow, r)

SpecScenario == InitScenario /\ [][NextSim]_vars

-----------------------------------------------------------------------------
(* Claims on the Simulator *)

\* the capacity the Simulator holds for the directed edge (u, v)
CapacityOf(u, v) == Remaining(sim.capacity, u, v)

\* the directed edges with an entry in the capacity mapping
CapacityEdges ==
    UNION {{<<u, v>> : v \in DOMAIN sim.capacity[u]} : u \in DOMAIN sim.capacity}

\* the passengers that boarded (u, v) at minute m: what the bucket of
\* minute m has lost
Boarded(m, u, v) ==
    CapacityOf(u, v) - Remaining(sim.capacity_by_min[m + 1], u, v)

SimRunning == sim.pc \in {"route", "board", "done"}

\* C15: in every bucket of the window and for every directed edge the
\* remaining capacity never drops below 0 and the passengers that boarded
\* never exceed capacity[u][v]; every boarding counted in the edge load took
\* one unit of one bucket, so a passenger boards only where capacity was
\* left; an edge with a zero or missing capacity entry is never boarded.
C15_BoardingWithinCapacity ==
    SimRunning =>
        /\ \A m \in 0..(sim.minutes - 1) : \A e \in CapacityEdges :
              /\ Remaining(sim.capacity_by_min[m + 1], e[1], e[2]) >= 0
              /\ Boarded(m, e[1], e[2]) >= 0
              /\ Boarded(m, e[1], e[2]) <= CapacityOf(e[1], e[2])
        /\ \A e \in DOMAIN sim.edge_load_total :
              /\ CapacityOf(e[1], e[2]) >= 1
              /\ sim.edge_load_total[e] =
                    SetSum([m \in 0..(sim.minutes - 1) |->
                               Boarded(m, e[1], e[2])], 0..(sim.minutes - 1))
        /\ \A e \in CapacityEdges \ DOMAIN sim.edge_load_total :
              \A m \in 0..(sim.minutes - 1) : Boarded(m, e[1], e[2]) = 0

\* a bucket of capacity 2 was used up and a passenger is waiting for the
\* edge
C15_Witness ==
    /\ sim.pc = "board"
    /\ sim.wait_time >= 1
    /\ CapacityOf(1, 2) = 2
    /\ \E m \in 0..(sim.minutes - 1) : Boarded(m, 1, 2) = 2

\* the minutes from a path's edges, each rounded up to whole minutes, at
\* least 1 (weights are in half minutes)
WholeMinutes(w) ==
    CHOOSE n \in 1..(w + 1) : 2 * n >= w /\ (n = 1 \/ 2 * (n - 1) < w)

PathMinutes(path) ==
    SetSum([k \in 1..(Len(path) - 1) |->
               WholeMinutes(EdgeWeight(g, path[k], path[k + 1]))],
           1..(Len(path) - 1))

\* the position of run: passenger, path edge, minute of the next attempt
SimBefore(a, b) ==
    \/ a.p < b.p
    \/ a.p = b.p /\ a.pc = "route" /\ b.pc = "board"
    \/ a.p = b.p /\ a.pc = "board" /\ b.pc = "board" /\ a.i < b.i
    \/ a.p = b.p /\ a.pc = "board" /\ b.pc = "board" /\ a.i = b.i
                 /\ a.attempt_min < b.attempt_min
    \/ a.pc = "route" /\ b.pc \in {"done", "raised"}

\* what C16 says of one step of a passenger facing the edge (u, v)
C16_Step ==
    LET u   == sim.path[sim.i]
        v   == sim.path[sim.i + 1]
        pid == sim.passengers[sim.p].pid
    IN  \* no minute since the passenger faced the edge had capacity left
        /\ \A m \in sim.t_min..(sim.attempt_min - 1) :
              /\ m < sim.minutes
              /\ Remaining(sim.capacity_by_min[m + 1], u, v) < 1
        /\ sim.attempt_min >= sim.t_min
        /\ IF sim.attempt_min >= sim.minutes
           THEN \* the window has ended: Blocked, infinite travel time
                /\ sim'.results = Append(sim.results, <<pid, sim.path, Inf>>)
                /\ sim'.blocked = sim.blocked + 1
                /\ sim'.p = sim.p + 1
                /\ sim'.capacity_by_min = sim.capacity_by_min
                /\ sim'.edge_load_total = sim.edge_load_total
           ELSE IF Remaining(sim.capacity_by_min[sim.attempt_min + 1], u, v) >= 1
           THEN \* the earliest minute with capacity left: the passenger boards
                /\ Remaining(sim'.capacity_by_min[sim.attempt_min + 1], u, v) =
                      Remaining(sim.capacity_by_min[sim.attempt_min + 1], u, v) - 1
                /\ sim'.t_min > sim.attempt_min
                /\ sim'.wait_time = sim.wait_time
                /\ sim'.blocked = sim.blocked
           ELSE \* a failed attempt: one minute of wait
                /\ sim'.attempt_min = sim.attempt_min + 1
                /\ sim'.wait_time = sim.wait_time + 1
                /\ sim'.t_min = sim.t_min
                /\ sim'.p = sim.p /\ sim'.i = sim.i /\ sim'.pc = "board"
                /\ sim'.results = sim.results
                /\ sim'.capacity_by_min = sim.capacity_by_min

\* C16: a passenger facing an edge boards at the earliest minute of the
\* window, from its current minute on, whose bucket has capacity left, and
\* waits one minute per failed attempt; when the window ends first it is
\* recorded Blocked with infinite travel time and not retried; every step
\* moves run forward (next attempt minute, next edge, next passenger), so
\* every passenger reaches a terminal state after finitely many steps.
C16_EarliestBoardingOrBlocked ==
    [][/\ sim.pc = "board" => C16_Step
       /\ sim.pc \in {"route", "board"} => SimBefore(sim, sim')
       /\ sim.pc \in {"route", "board", "done"} =>
             \A k \in 1..Len(sim.results) : sim'.results[k] = sim.results[k]]_vars

\* a finished run in which a passenger waited and then boarded and another
\* passenger with a path ended Blocked
C16_Witness ==
    /\ sim.pc = "done"
    /\ \E k \in 1..Len(sim.results) :
          /\ sim.results[k][3] < Inf
          /\ sim.results[k][3] > PathMinutes(sim.results[k][2])
    /\ \E k \in 1..Len(sim.results) :
          sim.results[k][3] = Inf /\ sim.results[k][2] # NoPath

\* C17: the travel time reported for an Arrived passenger is its minute of
\* arrival at the final path node minus its arrival minute, and that is the
\* sum of the rounded-up travel times of its path edges plus its one-minute
\* waits.  (Checked on the latest result, whose passenger's clock, path and
\* wait count run still holds.)
C17_TravelTimeAccounting ==
    (sim.pc \in {"route", "done"} /\ Len(sim.results) >= 1) =>
        LET r == sim.results[Len(sim.results)]
            psg == sim.passengers[Len(sim.results)]
        IN  r[3] < Inf =>
                /\ psg.pid = r[1]
                /\ r[3] = sim.t_min - psg.arrival_min
                /\ r[3] = PathMinutes(r[2]) + sim.wait_time

\* an arrival over two edges, one of them taking two minutes, after a wait
C17_Witness ==
    /\ sim.pc \in {"route", "done"}
    /\ Len(sim.results) >= 1
    /\ LET r == sim.results[Len(sim.results)]
       IN  /\ r[3] < Inf
           /\ Len(r[2]) = 3
           /\ sim.wait_time >= 1
           /\ PathMinutes(r[2]) >= 3

\* C18: in the result of run every generated passenger has exactly one
\* result, Arrived (finite travel time) or Blocked (infinite): blocked +
\* number of finite travel times = total_passengers = length of
\* passenger_results; avg_travel_time is the mean of the finite travel
\* times only and infinite exactly when no passenger arrived.
C18_OneOutcomePerPassenger ==
    sim.pc = "done" =>
        LET n        == Len(sim.results)
            arrived  == {k \in 1..n : sim.results[k][3] < Inf}
            blockedK == {k \in 1..n : sim.results[k][3] = Inf}
        IN  /\ n = Len(sim.passengers)
            /\ n = PassengerCount(sim.demand)
            /\ \A pid \in 0..(n - 1) :
                  Cardinality({k \in 1..n : sim.results[k][1] = pid}) = 1
            /\ sim.blocked = Cardinality(blockedK)
            /\ sim.blocked + Cardinality(arrived) = n
            /\ \A k \in arrived : sim.results[k][3] >= 0
            /\ IF arrived = {}
               THEN sim.avg_travel_time[1] = Inf
               ELSE /\ sim.avg_travel_time[1] =
                         SetSum([k \in arrived |-> sim.results[k][3]], arrived)
                    /\ sim.avg_travel_time[2] = Cardinality(arrived)
                    /\ sim.avg_travel_time[1] < Inf

\* a finished run with three passengers, some Arrived and some Blocked
C18_Witness ==
    /\ sim.pc = "done"
    /\ Len(sim.results) >= 3
    /\ \E k \in 1..Len(sim.results) : sim.results[k][3] < Inf
    /\ \E k \in 1..Len(sim.results) : sim.results[k][3] = Inf
    /\ sim.blocked >= 1

\* the nominal path cost of the scenario, in minutes: two edges of weight 1
ScenarioNominal == PathMinutes(<<1, 2, 3>>)

\* a passenger shows a wait: its travel time exceeds the nominal path cost
\* (a Blocked passenger's travel time is infinite)
ShowsWait == \E k \in 1..Len(sim.results) : sim.results[k][3] > ScenarioNominal

\* C19 as stated: in the capacity-bound scenario with at least 2
\* passengers, for every assignment of arrival minutes at least one
\* passenger shows a travel time exceeding the nominal path cost 2.
C19_ScenarioAlwaysWaits ==
    (sim.pc = "done" /\ Len(sim.passengers) >= 2) => ShowsWait

\* C19 as amended: in the capacity-bound scenario with at least 2
\* passengers, for every assignment of arrival minutes in which two
\* passengers share an arrival minute, at least one passenger shows a
\* travel time exceeding the nominal path cost 2.
C19_ScenarioWaitsOnSharedMinute ==
    (/\ sim.pc = "done"
     /\ Len(sim.passengers) >= 2
     /\ \E j, k \in 1..Len(sim.passengers) :
           /\ j # k
           /\ sim.passengers[j].arrival_min = sim.passengers[k].arrival_min)
        => ShowsWait

\* two passengers arrived in the same minute: one travelled in the nominal
\* 2 minutes, the other waited one minute
C19_Witness ==
    /\ sim.pc = "done"
    /\ Len(sim.passengers) = 2
    /\ sim.passengers[1].arrival_min = sim.passengers[2].arrival_min
    /\ sim.results[1][3] = ScenarioNominal
    /\ sim.results[2][3] = ScenarioNominal + 1

\* every edge between two graph nodes has capacity >= 1 in both directions
\* and the graph is connected
ConnectedWithCapacity ==
    /\ \A n \in g.nodes : Joined(g.edges, Len(g.edges), {n}) = g.nodes
    /\ \A k \in 1..Len(g.edges) : CapacityOf(g.edges[k][1], g.edges[k][2]) >= 1

\* C20: in the scenario with demand [(A, C, 60)], and more generally on a
\* connected graph with capacity >= 1 on every edge, run reports
\* total_passengers >= 1 and a finite avg_travel_time for every assignment
\* of arrival minutes: at least one passenger arrives.
C20_SomePassengerArrives ==
    (sim.pc = "done" /\ ConnectedWithCapacity) =>
        /\ Len(sim.passengers) >= 1
        /\ sim.avg_travel_time[1] < Inf
        /\ \E k \in 1..Len(sim.results) : sim.results[k][3] < Inf

-----------------------------------------------------------------------------
(* Claims on Graph (SpecGraph) *)

\* the entries of the neighbor list of n that lead to m with weight w
AdjCount(gr, n, m, w) ==
    Cardinality({k \in 1..Len(gr.adj[n]) : gr.adj[n][k] = <<m, w>>})

\* every endpoint of every edge is a node, the edge list holds the two
\* directions of each call next to each other, and the adjacency is
\* symmetric as a multiset
GraphWellFormed(gr) ==
    /\ \A i \in 1..Len(gr.edges) : {gr.edges[i][1], gr.edges[i][2]} \subseteq gr.nodes
    /\ \A n \in DOMAIN gr.adj :
          \A k \in 1..Len(gr.adj[n]) : {n, gr.adj[n][k][1]} \subseteq gr.nodes
    /\ Len(gr.edges) % 2 = 0
    /\ \A i \in 1..Len(gr.edges) :
          i % 2 = 1 => gr.edges[i + 1] =
                          <<gr.edges[i][2], gr.edges[i][1], gr.edges[i][3]>>
    /\ \A n, m \in DOMAIN gr.adj : \A w \in GraphWeights :
          AdjCount(gr, n, m, w) = AdjCount(gr, m, n, w)

\* the step from a to b is one add_node call
IsAddNode(a, b) ==
    \E node \in GraphNodes :
        /\ b.nodes = a.nodes \cup {node}
        /\ b.adj = a.adj
        /\ b.edges = a.edges

\* the step from a to b is one add_edge call on an undirected graph: the
\* entry (v, w) is appended to the list of u and the entry (u, w) to the
\* list of v, nothing else in the adjacency changes, and the edge list
\* grows by the two directions
IsAddEdge(a, b) ==
    \E p \in GraphPairs, w \in GraphWeights :
        LET u == p[1]
            v == p[2]
        IN  /\ b.nodes = a.nodes \cup {u, v}
            /\ a.nodes \subseteq b.nodes
            /\ b.edges = a.edges \o << <<u, v, w>>, <<v, u, w>> >>
            /\ \A n \in DOMAIN a.adj :
                  b.adj[n] = a.adj[n]
                                \o (IF n = u THEN << <<v, w>> >> ELSE <<>>)
                                \o (IF n = v THEN << <<u, w>> >> ELSE <<>>)

\* C21: on an undirected Graph every add_node / add_edge call keeps the
\* endpoints of every edge in the node set and never removes a node; each
\* add_edge(u, v, w) appends (v, w) at the end of u's neighbor list and
\* (u, w) at the end of v's, with the same weight, and two directed entries
\* to the edge list; nothing is merged, and the adjacency stays symmetric
\* as a multiset.
C21_UndirectedGraphInvariant ==
    /\ [](~g.directed => GraphWellFormed(g))
    /\ [][~g.directed =>
            /\ g'.directed = g.directed
            /\ g.nodes \subseteq g'.nodes
            /\ IsAddNode(g, g') \/ IsAddEdge(g, g')]_vars

\* two add_edge calls on the same pair with different weights, one of them
\* with a metadata dictionary, were made on an undirected graph that also
\* holds a node added by add_node: both parallel edges are kept in both
\* directions
C21_Witness ==
    /\ ~g.directed
    /\ Len(g.edges) = 4
    /\ AdjCount(g, 1, 2, -1) = 1
    /\ AdjCount(g, 1, 2, MaxWeight) = 1
    /\ AdjCount(g, 2, 1, -1) = 1
    /\ AdjCount(g, 2, 1, MaxWeight) = 1
    /\ DOMAIN g.edge_meta = {<<1, 2>>, <<2, 1>>}
    /\ 3 \in g.nodes

-----------------------------------------------------------------------------
(* Further claims on the Path Engine (SpecAstar, SpecDijkstra) *)

\* C22: with no heuristic, or with the zero heuristic, astar returns for
\* every pair of graph nodes the path and the cost that shortest_path
\* returns on the same graph, (no path, infinite cost) included.
C22_ZeroHeuristicIsDijkstra ==
    (/\ ast.pc \in {"done", "raised"}
     /\ ast.source \in g.nodes
     /\ ast.target \in g.nodes
     /\ ast.h = ZeroHeuristic)
        => /\ ast.pc = "done"
           /\ ~AstShortest.raised
           /\ ast.path = AstShortest.path
           /\ ast.cost = AstShortest.cost

\* a zero-heuristic search from a node other than 1 that returned a path of
\* two hops, lighter than an edge that leads from its source to its target
C22_Witness ==
    /\ ast.pc = "done"
    /\ ast.h = ZeroHeuristic
    /\ ast.source # 1
    /\ Len(ast.path) = 3
    /\ ast.path = AstShortest.path
    /\ \E e \in AdjEdges(g) :
          e[1] = ast.source /\ e[2] = ast.target /\ e[3] > ast.cost

-----------------------------------------------------------------------------
(* Specification of the Capacity Model: build_graph_from_gtfs adds pairs   *)
(* of consecutive stops with the headways of their trips to an undirected  *)
(* graph, build_capacity_from_gtfs may then run on a feed, and a Simulator  *)
(* is constructed without a capacity mapping.                              *)

\* the stops of the feed
CapStops == {1, 2, 3, 4}

\* the pairs of consecutive stops
CapPairs == {<<2, 3>>, <<3, 4>>, <<4, 1>>}

\* the headway lists of the trips, in seconds
CapHeadways == {<<>>, <<40>>, <<0, 40>>, <<120, 88>>}

\* the (vehicle_capacity, base_capacity_per_minute) arguments
CapArgs == {<<1, 1>>, <<11, 1>>, <<50, 1>>, <<50, 30>>}

\* the routes of the trips of the feeds: a trip without a route (the mode
\* comes from the stop prefixes), a route missing from routes.txt, a route
\* of type 1, a route of type 3
CapNoRoute ==
    [route_id |-> FALSE, row |-> FALSE, has_type |-> FALSE,
     route_type |-> "", short |-> ""]

CapRouteNoRow ==
    [route_id |-> TRUE, row |-> FALSE, has_type |-> TRUE,
     route_type |-> "", short |-> ""]

CapRouteMetro ==
    [route_id |-> TRUE, row |-> TRUE, has_type |-> TRUE,
     route_type |-> "1", short |-> "A"]

CapRouteBus ==
    [route_id |-> TRUE, row |-> TRUE, has_type |-> TRUE,
     route_type |-> "3", short |-> "B"]

\* the feeds build_capacity_from_gtfs is called on: one trip S1 -> S2
\* without a start time or a route; a metro trip S1 -> S2 -> T1 and a bus
\* trip S1 -> S2 that start half an hour apart; two trips T1 -> M1 of an
\* unlisted route that start four hours apart; a zip without routes.txt
CapFeeds ==
    {[complete |-> TRUE,
      trips |-> << [stops |-> <<2, 3>>, start |-> NoStart, route |-> CapNoRoute] >>],
     [complete |-> TRUE,
      trips |-> << [stops |-> <<2, 3, 4>>, start |-> <<21600>>, route |-> CapRouteMetro],
                   [stops |-> <<2, 3>>, start |-> <<23400>>, route |-> CapRouteBus] >>],
     [complete |-> TRUE,
      trips |-> << [stops |-> <<4, 1>>, start |-> <<21600>>, route |-> CapRouteNoRow],
                   [stops |-> <<4, 1>>, start |-> <<36000>>, route |-> CapRouteNoRow] >>],
     [complete |-> FALSE, trips |-> <<>>]}

InitCapacity ==
    /\ gtfs = GtfsIdle
    /\ g = LoadStops(CapStops)
    /\ dj = DjIdle
    /\ ast = AstIdle
    /\ ek = EkIdle
    /\ kr = KrIdle
    /\ bt = BtIdle
    /\ sim = SimIdle

\* one iteration of the loop of build_graph_from_gtfs that connects two
\* consecutive stops of a trip (the travel weight, which the Capacity Model
\* does not read, is MaxWeight minutes)
CapLoad ==
    /\ sim.pc = "idle"
    /\ gtfs.pc = "idle"
    /\ Len(g.edges) < MaxEdges
    /\ \E p \in CapPairs, hs \in CapHeadways :
          g' = LoadStopPair(g, p[1], p[2], MaxWeight, hs)
    /\ UNCHANGED <<dj, ast, ek, kr, bt, sim, gtfs>>

\* Simulator(g, vehicle_capacity=..., base_capacity_per_minute=...)
CapConstruct ==
    /\ sim.pc = "idle"
    /\ \E a \in CapArgs : sim' = SimulatorInit(g, a[1], a[2])
    /\ UNCHANGED <<g, dj, ast, ek, kr, bt, gtfs>>

\* build_capacity_from_gtfs(gtfs_zip_path, g) is called on a feed, which
\* need not be the feed the graph was loaded from
CapBuildCapacity ==
    /\ sim.pc = "idle"
    /\ gtfs.pc = "idle"
    /\ \E feed \in CapFeeds : \E sample \in SampleTrips(feed) :
          LET r == build_capacity_from_gtfs(g, feed, sample,
                                            DefaultVehicleCapacityMap, NoHours)
          IN  /\ g' = r.graph
              /\ gtfs' = IF r.raised THEN [pc |-> "raised"]
                         ELSE [pc |-> "built", capacity |-> r.capacity]
    /\ UNCHANGED <<dj, ast, ek, kr, bt, sim>>

NextCapacity == CapLoad \/ CapBuildCapacity \/ CapConstruct

SpecCapacity == InitCapacity /\ [][NextCapacity]_vars

\* the headways recorded for the canonical key of (u, v)
HeadwaysOf(u, v) ==
    LET key == IF u <= v THEN <<u, v>> ELSE <<v, u>>
    IN  IF /\ key \in DOMAIN g.edge_meta
           /\ g.edge_meta[key].kind = "dict"
           /\ "headways" \in DOMAIN g.edge_meta[key]
        THEN g.edge_meta[key].headways ELSE <<>>

\* the heuristic base of (u, v): base capacity times 3 for an 'M' endpoint,
\* else times 2 for a 'T' endpoint, else times 1
HeuristicBase(u, v) ==
    sim.base_capacity_per_minute *
        (IF 1 \in {u, v} THEN 3 ELSE IF 4 \in {u, v} THEN 2 ELSE 1)

\* round(num / den) of the exact quotient of two positive integers: the
\* nearest integer, a tie to the even neighbour as Python's round does
\* (7.5 gives 8, as rounding ties upward also does)
RoundQuotient(num, den) ==
    LET q == num \div den
        r == num % den
    IN  IF 2 * r < den THEN q
        ELSE IF 2 * r > den THEN q + 1
        ELSE IF q % 2 = 0 THEN q ELSE q + 1

\* the positive headways recorded for the canonical key of (u, v)
PositiveHeadways(u, v) ==
    {HeadwaysOf(u, v)[i] :
        i \in {k \in 1..Len(HeadwaysOf(u, v)) : HeadwaysOf(u, v)[k] > 0}}

\* C23: for every adjacency entry (u, v) the derived capacity is the
\* heuristic base when no headway is recorded for the edge; when headways
\* are recorded and h is the minimum positive one, it is the larger of the
\* base and round((60 / h) * vehicle_capacity); it is never below the base,
\* and capacity[u][v] = capacity[v][u] in the undirected graph.
C23_DerivedCapacity ==
    sim.pc = "constructed" =>
        \A u \in g.nodes : \A k \in 1..Len(g.adj[u]) :
            LET v == g.adj[u][k][1]
            IN  /\ v \in DOMAIN sim.capacity[u]
                /\ HeadwaysOf(u, v) = <<>> =>
                      sim.capacity[u][v] = HeuristicBase(u, v)
                /\ PositiveHeadways(u, v) # {} =>
                      sim.capacity[u][v] =
                          Max(HeuristicBase(u, v),
                              RoundQuotient(60 * sim.vehicle_capacity,
                                            SetMin(PositiveHeadways(u, v))))
                /\ sim.capacity[u][v] >= HeuristicBase(u, v)
                /\ sim.capacity[u][v] = sim.capacity[v][u]

-----
(* Further claims on the Ordered Index (SpecBTree) *)

\* the nodes of the tree below and including the nodes of S
RECURSIVE TreeNodes(_, _)
TreeNodes(t, S) ==
    LET kids == UNION {IF t.nodes[n].leaf THEN {}
                       ELSE {t.nodes[n].children[i] :
                                i \in 1..Len(t.nodes[n].children)} : n \in S}
    IN  IF kids \subseteq S THEN S ELSE TreeNodes(t, S \cup kids)

\* the leaves on the chain that starts at node, in chain order
RECURSIVE ChainLeaves(_, _, _)
ChainLeaves(t, node, res) ==
    IF node = None THEN res
    ELSE ChainLeaves(t, t.nodes[node].next, Append(res, node))

\* the keys of the leaves of a chain, in chain order
RECURSIVE ChainKeys(_, _, _)
ChainKeys(t, chain, i) ==
    IF i > Len(chain) THEN <<>>
    ELSE t.nodes[chain[i]].keys \o ChainKeys(t, chain, i + 1)

\* C24: after every completed insert every internal node has one separator
\* key less than it has children and at most B children, every leaf holds
\* fewer than B keys and, unless it is the root, at least one, and the leaf
\* chain from the leftmost leaf visits every leaf exactly once in ascending
\* key order.
C24_NodeShapeAndLeafChain ==
    bt.pc = "ready" =>
        LET all    == TreeNodes(bt, {bt.root})
            chain  == ChainLeaves(bt, LeftmostLeaf(bt, bt.root), <<>>)
            ckeys  == ChainKeys(bt, chain, 1)
        IN  /\ \A n \in all :
                  IF bt.nodes[n].leaf
                  THEN /\ Len(bt.nodes[n].keys) < bt.order
                       /\ n # bt.root => Len(bt.nodes[n].keys) >= 1
                  ELSE /\ Len(bt.nodes[n].keys) = Len(bt.nodes[n].children) - 1
                       /\ Len(bt.nodes[n].children) <= bt.order
            /\ {chain[i] : i \in 1..Len(chain)} = {n \in all : bt.nodes[n].leaf}
            /\ \A i, j \in 1..Len(chain) : i < j => chain[i] # chain[j]
            /\ \A i \in 1..(Len(ckeys) - 1) : ckeys[i] < ckeys[i + 1]

\* C25: in dijkstra a node that was popped and marked visited is final: its
\* distance is the least cost of a path from the source, no later iteration
\* changes its distance or its predecessor or unmarks it, and an iteration
\* that pops a later queue entry of a visited node only removes that entry.
C25_PoppedNodeIsFinal ==
    /\ [](dj.pc \in {"loop", "done"} =>
            \A n \in dj.visited : dj.dist[n] = MinCostFrom(g, dj.source)[n])
    /\ [][dj.pc = "loop" =>
            /\ \A n \in dj.visited :
                  /\ n \in dj'.visited
                  /\ dj'.dist[n] = dj.dist[n]
                  /\ dj'.prev[n] = dj.prev[n]
            /\ (dj.pq # {} /\ HeapMin(dj.pq)[2] \in dj.visited) =>
                  /\ dj'.dist = dj.dist
                  /\ dj'.prev = dj.prev
                  /\ dj'.visited = dj.visited
                  /\ dj'.pq = dj.pq \ {HeapMin(dj.pq)}]_vars

\* the loop is about to pop a stale entry: the node at the head of the
\* queue is visited, its recorded distance is smaller than the entry, and
\* other entries wait behind it
C25_Witness ==
    /\ dj.pc = "loop"
    /\ Cardinality(dj.pq) >= 2
    /\ Cardinality(dj.visited) >= 2
    /\ HeapMin(dj.pq)[2] \in dj.visited
    /\ dj.dist[HeapMin(dj.pq)[2]] < HeapMin(dj.pq)[1]

-----------------------------------------------------------------------------
(* Further claims on the Simulator (SpecSim) *)

\* the passengers from s.p on handled one after another, up to the point
\* where run computes its aggregate metrics
RECURSIVE SimRunAll(_, _)
SimRunAll(gr, s) ==
    IF s.pc = "route" /\ s.p <= Len(s.passengers) THEN SimRunAll(gr, SimRoute(gr, s))
    ELSE IF s.pc = "board" THEN SimRunAll(gr, SimAttempt(gr, s))
    ELSE s

\* the run of the same call in which only the first k passengers of the
\* processing order exist
PrefixRun(k) ==
    SimRunAll(g, [SimStart(SimCall(sim.capacity, sim.demand,
                                   sim.window_seconds, sim.randoms))
                    EXCEPT !.passengers = SubSeq(@, 1, k)])

\* C26: run handles the passengers one after another in ascending order of
\* arrival minute, passengers of equal arrival minute in generation order,
\* and lists passenger_results in that order; what the run recorded and
\* consumed once k passengers are handled is what it records and consumes
\* when the passengers after them do not exist.
C26_SequentialInArrivalOrder ==
    SimRunning =>
        LET ps  == sim.passengers
            gen == Generate(sim.demand, sim.randoms, 1, <<>>)
        IN  /\ Len(ps) = Len(gen)
            /\ {ps[k] : k \in 1..Len(ps)} = {gen[k] : k \in 1..Len(gen)}
            /\ \A j, k \in 1..Len(ps) :
                  j < k => \/ ps[j].arrival_min < ps[k].arrival_min
                           \/ /\ ps[j].arrival_min = ps[k].arrival_min
                              /\ ps[j].pid < ps[k].pid
            /\ Len(sim.results) <= Len(ps)
            /\ \A k \in 1..Len(sim.results) : sim.results[k][1] = ps[k].pid
            /\ sim.pc \in {"route", "board"} => sim.p = Len(sim.results) + 1
            /\ sim.pc = "done" => Len(sim.results) = Len(ps)
            /\ sim.pc = "route" =>
                  LET r == PrefixRun(sim.p - 1)
                  IN  /\ r.results = sim.results
                      /\ r.capacity_by_min = sim.capacity_by_min
                      /\ r.edge_load_total = sim.edge_load_total
                      /\ r.blocked = sim.blocked

\* a finished run of three passengers in which the passenger generated
\* first was not handled first, two passengers arrived in the same minute,
\* and a passenger handled later ended Blocked after an earlier one arrived
C26_Witness ==
    /\ sim.pc = "done"
    /\ Len(sim.results) >= 3
    /\ sim.results[1][1] # 0
    /\ \E k \in 1..(Len(sim.passengers) - 1) :
          sim.passengers[k].arrival_min = sim.passengers[k + 1].arrival_min
    /\ \E j, k \in 1..Len(sim.results) :
          j < k /\ sim.results[j][3] < Inf /\ sim.results[k][3] = Inf
                /\ sim.results[k][2] # NoPath

\* the cells (minute, u, v) of the minute buckets
BucketCells(s) ==
    {c \in (1..s.minutes) \X (DOMAIN s.capacity) \X AllIds :
        c[3] \in DOMAIN s.capacity[c[2]]}

\* the same call made once more on the Simulator as the run left it
SecondRun ==
    SimFinish(SimRunAll(g, SimStart(SimCall(sim.capacity, sim.demand,
                                            sim.window_seconds, sim.randoms))))

\* C27: every minute bucket starts equal to the capacity mapping; a
\* boarding of edge (u, v) at minute m takes one unit from the cell
\* (m, u, v) and leaves every other cell of every bucket as it was; no step
\* of run changes the capacity mapping of the Simulator, and the same call
\* made again with the same arrival minutes returns the same results.
C27_BucketsAreIndependent ==
    /\ []((sim.pc = "route" /\ sim.p = 1) =>
            \A m \in 1..sim.minutes : sim.capacity_by_min[m] = sim.capacity)
    /\ []((sim.pc = "done") =>
            /\ SecondRun.results = sim.results
            /\ SecondRun.edge_load_total = sim.edge_load_total
            /\ SecondRun.avg_travel_time = sim.avg_travel_time
            /\ SecondRun.blocked = sim.blocked)
    /\ [][sim.pc \in {"idle", "route", "board"} /\ sim'.pc # "raised" =>
            /\ sim'.capacity = sim.capacity
            /\ sim.pc # "idle" =>
                 IF sim.pc = "board" /\ sim'.edge_load_total # sim.edge_load_total
                 THEN LET u == sim.path[sim.i]
                          v == sim.path[sim.i + 1]
                          m == sim.attempt_min + 1
                      IN  /\ <<m, u, v>> \in BucketCells(sim)
                          /\ \A c \in BucketCells(sim) :
                                sim'.capacity_by_min[c[1]][c[2]][c[3]] =
                                    sim.capacity_by_min[c[1]][c[2]][c[3]]
                                        - (IF c = <<m, u, v>> THEN 1 ELSE 0)
                          /\ \A k \in 1..sim.minutes :
                                /\ DOMAIN sim'.capacity_by_min[k] = DOMAIN sim.capacity
                                /\ \A x \in DOMAIN sim.capacity :
                                      DOMAIN sim'.capacity_by_min[k][x] =
                                          DOMAIN sim.capacity[x]
                 ELSE sim'.capacity_by_min = sim.capacity_by_min]_vars

\* a finished run of a window of several minutes in which the same edge
\* was boarded in two different minutes and one bucket of it was used up
\* while another one was left untouched
C27_Witness ==
    /\ sim.pc = "done"
    /\ sim.minutes >= 3
    /\ \E m1, m2, m3 \in 1..sim.minutes :
          /\ Remaining(sim.capacity, 1, 2) >= 1
          /\ Remaining(sim.capacity_by_min[m1], 1, 2) = 0
          /\ Remaining(sim.capacity_by_min[m2], 1, 2)
                = Remaining(sim.capacity, 1, 2) - 1
          /\ m1 # m2
          /\ sim.capacity_by_min[m3] = sim.capacity

-----------------------------------------------------------------------------
(* Further claims on astar and edmonds_karp *)

\* the total weights that the walk path[i..] can have, one per choice among
\* parallel edges
RECURSIVE WalkCosts(_, _, _)
WalkCosts(gr, path, i) ==
    IF i >= Len(path) THEN {0}
    ELSE {e[3] + c : e \in {x \in AdjEdges(gr) : x[1] = path[i] /\ x[2] = path[i + 1]},
                     c \in WalkCosts(gr, path, i + 1)}

\* C28: whenever astar returns a path, with any non-negative heuristic, the
\* path leads from the source to the target along edges of the graph and
\* the returned cost is the sum of the weights of its edges.
C28_AstarCostIsPathWeight ==
    (ast.pc = "done" /\ ast.path # NoPath) =>
        /\ ast.path[1] = ast.source
        /\ ast.path[Len(ast.path)] = ast.target
        /\ IsWalk(g, ast.path)
        /\ ast.cost \in WalkCosts(g, ast.path, 1)

\* C29: in edmonds_karp, after every augmentation step and in the returned
\* mapping, 0 <= flow[u][v] <= capacity[u][v] for every directed pair (an
\* absent capacity counting as 0), and the flow value equals the net flow
\* that leaves the source.
C29_FlowIsFeasible ==
    ek.pc \in {"bfs", "done"} =>
        /\ \A u, v \in FlowNodes :
              /\ 0 <= ek.flow[u][v]
              /\ ek.flow[u][v] <= (IF CapHas(ek, u, v) THEN ek.cap[u][v] ELSE 0)
        /\ ek.max_flow = Outflow(ek, ek.source) - Inflow(ek, ek.source)

\* a returned mapping after at least two augmentations in which an entry
\* is saturated, another carries less than its capacity and a third, read
\* by the search, carries nothing
C29_Witness ==
    /\ ek.pc = "done"
    /\ ek.max_flow >= 2
    /\ \E u, v \in FlowNodes : ek.flow[u][v] = ek.cap[u][v] /\ ek.cap[u][v] >= 2
    /\ \E u, v \in FlowNodes : 0 < ek.flow[u][v] /\ ek.flow[u][v] < ek.cap[u][v]
    /\ \E u, v \in FlowNodes : CapHas(ek, u, v) /\ ek.cap[u][v] > 0 /\ ek.flow[u][v] = 0

\* the weight the Path Engine counts for the hop (u, v): the least weight
\* among the parallel entries of u that lead to v
HopWeight(u, v) ==
    SetMin({g.adj[u][k][2] : k \in {j \in 1..Len(g.adj[u]) : g.adj[u][j][1] = v}})

\* the sum of the rounded-up hop weights of a path, in minutes
NominalMinutes(path) ==
    SetSum([k \in 1..(Len(path) - 1) |->
               WholeMinutes(HopWeight(path[k], path[k + 1]))],
           1..(Len(path) - 1))

\* C30: a boarding of path edge (u, v) advances the passenger's clock by
\* the least weight among the parallel u->v edges, the weight the Path
\* Engine counted for the hop, rounded up to whole minutes; an Arrived
\* passenger that never waited has a travel time equal to the sum of the
\* rounded-up hop weights of its path, and every Arrived passenger's travel
\* time is at least the nominal cost of its path (weights in half minutes).
C30_ChargesPathEngineWeight ==
    /\ [][(sim.pc = "board" /\ sim'.edge_load_total # sim.edge_load_total) =>
            sim'.t_min = sim.attempt_min +
                WholeMinutes(HopWeight(sim.path[sim.i], sim.path[sim.i + 1]))]_vars
    /\ []((sim.pc \in {"route", "done"} /\ Len(sim.results) >= 1) =>
            LET r   == sim.results[Len(sim.results)]
                psg == sim.passengers[Len(sim.results)]
            IN  (r[3] < Inf /\ r[2] # NoPath) =>
                    /\ 2 * r[3] >= shortest_path(g, psg.origin, psg.dest).cost
                    /\ sim.wait_time = 0 => r[3] = NominalMinutes(r[2]))

=============================================================================
